---- MODULE Spec2Model ----
(***************************************************************************)
(* A model of the trace / evaluation core of the customer support demo:    *)
(*   - tracing/tracer.py        the Tracer (start_trace, record_step,      *)
(*                              end_trace) over a heap of dicts and lists  *)
(*   - evaluators/*.py          the evaluators, as operators               *)
(*   - customer_support_agent/main.py   run_pipeline, print_summary        *)
(*   - utils/exporters.py       _collect_metrics, export_to_json           *)
(*                                                                         *)
(* Python values: None is the string "None"; opaque payload dicts are      *)
(* strings such as "{}" or "{attr:val}"; a dict with optional keys is a    *)
(* TLA+ function whose DOMAIN is the set of keys present.  Text that the   *)
(* code searches is a sequence of one-character strings.  Times are in     *)
(* microseconds, latency_ms values in hundredths of a millisecond, scores  *)
(* of the evaluators in thousandths.                                       *)
(***************************************************************************)
EXTENDS Integers, Sequences, FiniteSets, TLC

VARIABLES
    \* ---- Tracer (tracing/tracer.py) ----
    traces,         \* heap of trace dicts, by object id
    lists,          \* heap of step lists, by object id
    current_trace,  \* Tracer.current_trace: id of a trace dict
    steps,          \* Tracer.steps: id of a step list
    now,            \* the wall clock read by time.time(), microseconds
    uuid_count,     \* number of uuid4() values handed out
    history,        \* ghost: the calls made on the Tracer, in order
    returned,       \* ghost: what each normal end_trace returned
    \* ---- one evaluator applied to one (ticket, result) pair (evaluators/*.py) ----
    ev_ticket,      \* the ticket given to evaluate
    ev_result,      \* the result given to evaluate
    ev_env,         \* the environment the LLM evaluators were constructed in
    ev_name,        \* the evaluator applied last, "<none>" before the first
    ev_judge,       \* what the judge call of that evaluate did
    ev_out,         \* what that evaluate did: raised, or the record it returned
    \* ---- run_pipeline (customer_support_agent/main.py) ----
    pl_pc,          \* position in run_pipeline
    pl_env,         \* the environment create_evaluators ran in
    pl_i,           \* index of the datapoint of the current iteration
    pl_j,           \* index of the next evaluator of the inner loop
    pl_result,      \* result of the current iteration
    pl_results,     \* results
    pl_seen,        \* ghost: what each CompositeEvaluator.evaluate call was given
    \* ---- the summaries of a results list (utils/exporters.py, main.py) ----
    ex_results,     \* the results list the summaries are made of
    ex_done,        \* the functions that have been called on it
    ex_payload,     \* what export_to_json returned
    ex_file,        \* the JSON text export_to_json wrote to the file, as tokens
    ex_printed,     \* the numbers print_summary printed
    ex_metrics,     \* what _collect_metrics returned
    \* ---- compare_runs (customer_support_agent/main.py) ----
    cmp_files,      \* the JSON text of the files at path_a and path_b, as tokens
    cmp_printed,    \* the lines compare_runs printed
    \* ---- one CustomerSupportAgent and its Tracer (agents/support_agent.py) ----
    ag_use_llm,     \* self.use_llm
    ag_client,      \* whether self.client is an LLM client (not None)
    ag_pc,          \* position in process_ticket
    ag_call,        \* the arguments of the process_ticket call under way, and
                    \* (ghost) whether the LLM was in use when it was made
    ag_routing,     \* routing, the output of route_to_category
    ag_docs,        \* docs, the output of retrieve_docs
    ag_response,    \* response, the output of generate_response
    ag_returned,    \* ghost: each result returned, with the trace as it was then
    ag_llm_log,     \* ghost: the calls made on the LLM client, in order
    \* ---- repeated calls of the deterministic evaluators and _collect_metrics ----
    pu_objects,     \* the (ticket, result) objects the calls are made on
    pu_selves,      \* the instance dict of each evaluator
    pu_seen,        \* ghost: each call made: its name, its input, what it returned
    pu_calls        \* number of calls made

tracerVars == <<traces, lists, current_trace, steps, now, uuid_count, history, returned>>

evalVars == <<ev_ticket, ev_result, ev_env, ev_name, ev_judge, ev_out>>

pipelineVars == <<pl_pc, pl_env, pl_i, pl_j, pl_result, pl_results, pl_seen>>

exportVars == <<ex_results, ex_done, ex_payload, ex_file, ex_printed, ex_metrics>>

compareVars == <<cmp_files, cmp_printed>>

agentVars == <<ag_use_llm, ag_client, ag_pc, ag_call, ag_routing, ag_docs, ag_response,
               ag_returned, ag_llm_log>>

pureVars == <<pu_objects, pu_selves, pu_seen, pu_calls>>

vars == <<tracerVars, evalVars, pipelineVars, exportVars, compareVars, agentVars, pureVars>>

----------------------------------------------------------------------------
(* Bounds of the model *)

\* number of calls made on one Tracer
MaxCalls == 4

\* number of datapoints of the dataset that run_pipeline is run on
MaxTickets == 2

\* number of results of a results list that is summarised
MaxResults == 3

\* number of calls in a row of the deterministic evaluators and _collect_metrics
MaxEvaluations == 3

----------------------------------------------------------------------------
(* Python helpers *)

None == "None"

\* truthiness of an opaque payload: None and the empty dict are falsy
Truthy(x) == x \notin {"None", "{}"}

\* `x or {}`
OrEmptyDict(x) == IF Truthy(x) THEN x ELSE "{}"

\* round(n / d) to the nearest integer, ties to even (Python's round), n >= 0 or n < 0
RoundHalfEven(n, d) ==
    LET q == n \div d
        r == n % d          \* 0 <= r < d, also for negative n
    IN  IF 2 * r < d THEN q
        ELSE IF 2 * r > d THEN q + 1
        ELSE IF q % 2 = 0 THEN q ELSE q + 1

----------------------------------------------------------------------------
(* Tracer: tracing/tracer.py *)

\* time.time() may have advanced by any of these amounts since the last read
Ticks == {0, 15}

\* arguments of start_trace tried by the model
StartArgs ==
    { [ticket_id |-> "1", version |-> "v1", run_id |-> "run123", datapoint_id |-> "dp1",
       prompt_version |-> "pv1", ground_truth |-> None],
      [ticket_id |-> "2", version |-> None, run_id |-> None, datapoint_id |-> None,
       prompt_version |-> None, ground_truth |-> "{expected_category:data_export}"] }

\* arguments of record_step tried by the model
StepArgs ==
    { [step_name |-> "dummy", input_payload |-> "{a:1}", output_payload |-> "{b:2}",
       attributes |-> "{attr:val}"],
      [step_name |-> "route_to_category", input_payload |-> "{issue}",
       output_payload |-> "{category}", attributes |-> None] }

\* arguments of end_trace tried by the model
EvaluationsArgs == {None, "{composite}"}

\* the keys a trace dict can carry; a dict's `keys` are those it does carry
StartKeys == {"trace_id", "ticket_id", "version", "run_id", "datapoint_id",
              "prompt_version", "start_time", "steps", "ground_truth"}

\* Tracer.__init__: current_trace = {}
EmptyDict ==
    [keys |-> {}, trace_id |-> 0, ticket_id |-> None, version |-> None, run_id |-> None,
     datapoint_id |-> None, prompt_version |-> None, start_time |-> 0, steps |-> 0,
     ground_truth |-> None, end_time |-> 0, latency_ms |-> 0, evaluations |-> None]

\* a latency computed with its operands swapped
LatencyMsSwapped(start, end) == RoundHalfEven(start - end, 10)

\* round((end - start) * 1000, 2) for times in microseconds, in hundredths of a ms
LatencyMs(start, end) == RoundHalfEven(end - start, 10)

\* the value of a trace dict, its step list followed
TraceValue(id) ==
    [d |-> traces[id],
     steps |-> IF "steps" \in traces[id].keys THEN lists[traces[id].steps] ELSE <<>>]

InitTracer ==
    /\ traces = <<EmptyDict>>
    /\ lists = << <<>> >>
    /\ current_trace = 1
    /\ steps = 1
    /\ now = 0
    /\ uuid_count = 0
    /\ history = <<>>
    /\ returned = <<>>

\* the dict start_trace builds
NewTrace(a, t) ==
    [EmptyDict EXCEPT
        !.keys = StartKeys,
        !.trace_id = uuid_count + 1,
        !.ticket_id = a.ticket_id,
        !.version = a.version,
        !.run_id = a.run_id,
        !.datapoint_id = a.datapoint_id,
        !.prompt_version = a.prompt_version,
        !.start_time = t,
        !.steps = Len(lists) + 1,
        !.ground_truth = OrEmptyDict(a.ground_truth)]

\* a start_trace that forgets `self.steps = []`
StartTraceKeepsBuffer(a, d) ==
    /\ now' = now + d
    /\ uuid_count' = uuid_count + 1
    /\ lists' = Append(Append(lists, <<>>), <<>>)
    /\ traces' = Append(traces, NewTrace(a, now + d))
    /\ current_trace' = Len(traces) + 1
    /\ steps' = steps
    /\ history' = Append(history, [op |-> "start_trace", args |-> a, raised |-> FALSE])
    /\ UNCHANGED returned

\* a start_trace that refills the current dict and empties the buffer in place
\* (self.current_trace.clear() / update, self.steps.clear())
StartTraceInPlace(a, d) ==
    /\ now' = now + d
    /\ uuid_count' = uuid_count + 1
    /\ lists' = Append(Append([lists EXCEPT ![steps] = <<>>], <<>>), <<>>)
    /\ traces' = [traces EXCEPT ![current_trace] = NewTrace(a, now + d)]
    /\ UNCHANGED <<current_trace, steps>>
    /\ history' = Append(history, [op |-> "start_trace", args |-> a, raised |-> FALSE])
    /\ UNCHANGED returned

\* a start_trace that stores run_id and datapoint_id in each other's place
StartTraceSwapsIds(a, d) ==
    /\ now' = now + d
    /\ uuid_count' = uuid_count + 1
    /\ lists' = Append(Append(lists, <<>>), <<>>)
    /\ traces' = Append(traces, [NewTrace(a, now + d) EXCEPT
                                    !.run_id = a.datapoint_id, !.datapoint_id = a.run_id])
    /\ current_trace' = Len(traces) + 1
    /\ steps' = Len(lists) + 2
    /\ history' = Append(history, [op |-> "start_trace", args |-> a, raised |-> FALSE])
    /\ UNCHANGED returned

\* start_trace(ticket_id, version, run_id, datapoint_id, prompt_version, ground_truth)
StartTrace(a, d) ==
    /\ now' = now + d
    /\ uuid_count' = uuid_count + 1
    \* two new lists: the "steps": [] of the dict, and self.steps = []
    /\ lists' = Append(Append(lists, <<>>), <<>>)
    /\ traces' = Append(traces, NewTrace(a, now + d))
    /\ current_trace' = Len(traces) + 1
    /\ steps' = Len(lists) + 2
    /\ history' = Append(history, [op |-> "start_trace", args |-> a, raised |-> FALSE])
    /\ UNCHANGED returned

\* record_step(step_name, input_payload, output_payload, attributes)
RecordStep(a, d1, d2) ==
    /\ LET start == now + d1
           end == start + d2
           step_record ==
               [name |-> a.step_name, input |-> a.input_payload,
                output |-> a.output_payload,
                attributes |-> OrEmptyDict(a.attributes),
                start_time |-> start, end_time |-> end,
                latency_ms |-> LatencyMs(start, end)]
       IN  /\ now' = end
           /\ lists' = [lists EXCEPT ![steps] = Append(@, step_record)]
    /\ history' = Append(history, [op |-> "record_step", args |-> a, raised |-> FALSE])
    /\ UNCHANGED <<traces, current_trace, steps, uuid_count, returned>>

\* end_trace(evaluations)
EndTrace(evaluations, d) ==
    /\ now' = now + d
    /\ LET end_time == now + d
           cur == traces[current_trace]
           stamped == [cur EXCEPT !.keys = @ \cup {"end_time"}, !.end_time = end_time]
       IN  IF "start_time" \notin cur.keys
           THEN \* self.current_trace["start_time"] raises KeyError after end_time is set
                /\ traces' = [traces EXCEPT ![current_trace] = stamped]
                /\ history' = Append(history,
                        [op |-> "end_trace", args |-> evaluations, raised |-> TRUE])
                /\ UNCHANGED returned
           ELSE /\ traces' = [traces EXCEPT ![current_trace] =
                        [stamped EXCEPT
                            !.keys = @ \cup {"latency_ms", "steps"}
                                       \cup (IF Truthy(evaluations) THEN {"evaluations"} ELSE {}),
                            !.latency_ms = LatencyMs(cur.start_time, end_time),
                            !.steps = steps,
                            !.evaluations = IF Truthy(evaluations) THEN evaluations ELSE @]]
                /\ history' = Append(history,
                        [op |-> "end_trace", args |-> evaluations, raised |-> FALSE])
                /\ returned' = Append(returned, [ref |-> current_trace, at |-> Len(history) + 1])
    /\ UNCHANGED <<lists, current_trace, steps, uuid_count>>

DoStartTrace ==
    /\ Len(history) < MaxCalls
    /\ \E a \in StartArgs, d \in Ticks : StartTrace(a, d)
    /\ UNCHANGED <<evalVars, pipelineVars, exportVars, compareVars, agentVars, pureVars>>

DoRecordStep ==
    /\ Len(history) < MaxCalls
    /\ \E a \in StepArgs, d1 \in Ticks, d2 \in Ticks : RecordStep(a, d1, d2)
    /\ UNCHANGED <<evalVars, pipelineVars, exportVars, compareVars, agentVars, pureVars>>

DoEndTrace ==
    /\ Len(history) < MaxCalls
    /\ \E e \in EvaluationsArgs, d \in Ticks : EndTrace(e, d)
    /\ UNCHANGED <<evalVars, pipelineVars, exportVars, compareVars, agentVars, pureVars>>

NextTracer == DoStartTrace \/ DoRecordStep \/ DoEndTrace

----------------------------------------------------------------------------
(* Python values read by the evaluators *)

\* a str value, as its characters
Str(chars) == [type |-> "str", chars |-> chars]

PyNone == [type |-> "NoneType", chars |-> <<>>]

\* a list value (its items are not read by the evaluators)
PyList == [type |-> "list", chars |-> <<>>]

\* {}
EmptyMap == [k \in {} |-> k]

\* d.get(k, default)
Get(d, k, default) == IF k \in DOMAIN d THEN d[k] ELSE default

\* `text or ""`, the characters of the result
TextOrEmpty(v) == IF v.type = "str" THEN v.chars ELSE <<>>

\* a message string, as the pieces it is formatted from
Text(parts) == [t |-> "str", parts |-> parts, n |-> 0, b |-> FALSE]

UpperLetters ==
    <<"A", "B", "C", "D", "E", "F", "G", "H", "I", "J", "K", "L", "M",
      "N", "O", "P", "Q", "R", "S", "T", "U", "V", "W", "X", "Y", "Z">>

LowerLetters ==
    <<"a", "b", "c", "d", "e", "f", "g", "h", "i", "j", "k", "l", "m",
      "n", "o", "p", "q", "r", "s", "t", "u", "v", "w", "x", "y", "z">>

Digits == {"0", "1", "2", "3", "4", "5", "6", "7", "8", "9"}

UpperSet == {UpperLetters[i] : i \in 1..Len(UpperLetters)}

\* the lower-case letter of each upper-case letter
LowerOf == [c \in UpperSet |-> LowerLetters[CHOOSE i \in 1..Len(UpperLetters) : UpperLetters[i] = c]]

\* str.lower() of one character
Lower(c) == IF c \in UpperSet THEN LowerOf[c] ELSE c

\* str.lower()
LowerText(t) == [i \in 1..Len(t) |-> Lower(t[i])]

\* `kw in text`
Contains(text, kw) ==
    \E i \in 0..(Len(text) - Len(kw)) : \A k \in 1..Len(kw) : text[i + k] = kw[k]

\* str(ticket["id"])
StrOf(id) == IF id.kind = "int" THEN ToString(id.n) ELSE id.s

\* str(b) of a bool
PyBoolStr(b) == IF b THEN "True" ELSE "False"

----------------------------------------------------------------------------
(* data/ground_truth.py *)

\* data/ground_truth.py: expected category and keywords by ticket id
GROUND_TRUTH ==
    ("1" :> [expected_category |-> "upload_errors",
          expected_keywords |-> <<
              <<"4", "0", "4">>,
              <<"e", "n", "d", "p", "o", "i", "n", "t">>,
              <<"u", "r", "l">>,
              <<"p", "a", "t", "h">> >>])
    @@ ("2" :> [expected_category |-> "account_access",
          expected_keywords |-> <<
              <<"s", "s", "o">>,
              <<"r", "e", "d", "i", "r", "e", "c", "t">>,
              <<"i", "d", "e", "n", "t", "i", "t", "y", " ", "p", "r", "o", "v", "i", "d", "e", "r">>,
              <<"s", "a", "m", "l">> >>])
    @@ ("3" :> [expected_category |-> "data_export",
          expected_keywords |-> <<
              <<"q", "u", "e", "u", "e">>,
              <<"s", "t", "a", "t", "u", "s">>,
              <<"p", "r", "o", "c", "e", "s", "s", "i", "n", "g">> >>])
    @@ ("4" :> [expected_category |-> "account_access",
          expected_keywords |-> <<
              <<"p", "a", "s", "s", "w", "o", "r", "d">>,
              <<"r", "e", "s", "e", "t">>,
              <<"l", "i", "n", "k">>,
              <<"e", "m", "a", "i", "l">> >>])
    @@ ("5" :> [expected_category |-> "upload_errors",
          expected_keywords |-> <<
              <<"b", "r", "o", "w", "s", "e", "r">>,
              <<"s", "a", "f", "a", "r", "i">>,
              <<"h", "t", "t", "p", "s">>,
              <<"c", "o", "m", "p", "a", "t", "i", "b", "i", "l", "i", "t", "y">>,
              <<"s", "s", "l">> >>])
    @@ ("6" :> [expected_category |-> "data_export",
          expected_keywords |-> <<
              <<"j", "s", "o", "n">>,
              <<"c", "s", "v">>,
              <<"l", "i", "m", "i", "t">>,
              <<"f", "o", "r", "m", "a", "t">> >>])
    @@ ("7" :> [expected_category |-> "account_access",
          expected_keywords |-> <<
              <<"2", "f", "a">>,
              <<"l", "o", "c", "k", "e", "d">>,
              <<"u", "n", "l", "o", "c", "k">>,
              <<"a", "d", "m", "i", "n", "i", "s", "t", "r", "a", "t", "o", "r">> >>])
    @@ ("8" :> [expected_category |-> "upload_errors",
          expected_keywords |-> <<
              <<"c", "d", "n">>,
              <<"c", "a", "c", "h", "e">>,
              <<"p", "u", "r", "g", "e">>,
              <<"c", "l", "o", "u", "d", "f", "l", "a", "r", "e">> >>])
    @@ ("9" :> [expected_category |-> "data_export",
          expected_keywords |-> <<
              <<"e", "x", "p", "i", "r", "e", "d">>,
              <<"d", "o", "w", "n", "l", "o", "a", "d">>,
              <<"r", "e", "g", "e", "n", "e", "r", "a", "t", "e">>,
              <<"2", "4", " ", "h", "o", "u", "r", "s">> >>])
    @@ ("10" :> [expected_category |-> "upload_errors",
          expected_keywords |-> <<
              <<"h", "t", "t", "p", "s">>,
              <<"m", "i", "x", "e", "d", " ", "c", "o", "n", "t", "e", "n", "t">>,
              <<"s", "s", "l">>,
              <<"s", "e", "c", "u", "r", "i", "t", "y">> >>])

----------------------------------------------------------------------------
(* evaluators/routing_evaluator.py *)

\* a RoutingEvaluator that scores a missing category like a differing one
RoutingEvaluateNoMissing(ticket, result) ==
    LET ticket_id == StrOf(ticket.id)
        expected == Get(Get(GROUND_TRUTH, ticket_id, EmptyMap), "expected_category", None)
        predicted == Get(Get(result, "output", EmptyMap), "category", None)
        passed == expected = predicted
    IN  [name |-> "routing_accuracy",
         score |-> IF passed THEN 5000 ELSE 2000,
         reasoning |-> Text(<<"expected=", expected, ", predicted=", predicted>>),
         passed |-> passed]

\* RoutingEvaluator.evaluate; categories are compared as whole strings
RoutingEvaluate(ticket, result) ==
    LET ticket_id == StrOf(ticket.id)
        expected == Get(Get(GROUND_TRUTH, ticket_id, EmptyMap), "expected_category", None)
        predicted == Get(Get(result, "output", EmptyMap), "category", None)
    IN  IF expected \in {None, ""} \/ predicted \in {None, ""}
        THEN [name |-> "routing_accuracy", score |-> 1000,
              reasoning |-> Text(<<"Missing expected or predicted category">>),
              passed |-> FALSE]
        ELSE LET passed == expected = predicted
             IN  [name |-> "routing_accuracy",
                  score |-> IF passed THEN 5000 ELSE 2000,
                  reasoning |-> Text(<<"expected=", expected, ", predicted=", predicted>>),
                  passed |-> passed]

----------------------------------------------------------------------------
(* evaluators/keyword_evaluator.py *)

\* number of the keywords of `expected` found in `response_lower`
Matches(expected, response_lower) ==
    Cardinality({i \in 1..Len(expected) : Contains(response_lower, LowerText(expected[i]))})

\* round(KeywordEvaluator._coverage(expected, response), 3), in thousandths
Coverage(expected, response) ==
    IF Len(expected) = 0 THEN 0
    ELSE RoundHalfEven(Matches(expected, LowerText(response)) * 1000, Len(expected))

\* the text KeywordEvaluator.evaluate scores
KeywordResponse(result) ==
    TextOrEmpty(Get(Get(Get(result, "steps", EmptyMap), "step_3", EmptyMap),
                    "response", Str(<<>>)))

\* KeywordEvaluator.evaluate
KeywordEvaluate(ticket, result) ==
    LET ticket_id == StrOf(ticket.id)
        expected == Get(Get(GROUND_TRUTH, ticket_id, EmptyMap), "expected_keywords", <<>>)
        response == KeywordResponse(result)
        coverage == Coverage(expected, response)
    IN  [name |-> "keyword_coverage", score |-> coverage,
         reasoning |-> Text(<<"matched ", ToString(RoundHalfEven(coverage, 10)),
                              "% of expected keywords">>),
         passed |-> coverage >= 600]

----------------------------------------------------------------------------
(* utils/honeyhive_experiment.py *)

\* bool(v) of a value read from the outputs
NonEmptyStr(v) == v.type = "str" /\ v.chars # <<>>

\* the outputs function_to_evaluate builds from the result of process_ticket
FunctionToEvaluateOutputs(result) ==
    LET answer == Get(Get(result, "output", EmptyMap), "answer", Str(<<>>))
    IN  [response |-> answer, answer |-> answer]

\* the keyword_coverage evaluator of create_honeyhive_evaluators: an int, 0..100
keyword_coverage(outputs, ground_truths) ==
    LET expected_keywords == Get(ground_truths, "expected_keywords", <<>>)
        picked == IF NonEmptyStr(Get(outputs, "response", PyNone))
                  THEN outputs["response"]
                  ELSE Get(outputs, "answer", Str(<<>>))
        response == LowerText(TextOrEmpty(picked))
    IN  IF expected_keywords = <<>> THEN 100
        ELSE (100 * Matches(expected_keywords, response)) \div Len(expected_keywords)

----------------------------------------------------------------------------
(* evaluators/action_steps_evaluator.py *)

\* \s
IsSpace(c) == c \in {" ", "\t", "\n", "\r", "\f"}

\* the pattern without re.MULTILINE: ^ matches at the start of the text only
HasNumberedStepAtStart(t) ==
    \E j \in 1..Len(t), k \in 1..Len(t) :
        /\ j < k
        /\ \A x \in 1..(j - 1) : IsSpace(t[x])
        /\ \A x \in j..(k - 1) : t[x] \in Digits
        /\ t[k] = "."

\* pattern.search(text) for ^\s*\d+\. with re.MULTILINE
HasNumberedStep(t) ==
    \E i \in 1..Len(t) :
        /\ (i = 1 \/ t[i - 1] = "\n")
        /\ \E j \in i..Len(t), k \in i..Len(t) :
            /\ j < k
            /\ \A x \in i..(j - 1) : IsSpace(t[x])
            /\ \A x \in j..(k - 1) : t[x] \in Digits
            /\ t[k] = "."

\* the text ActionStepsEvaluator and SafetyEvaluator read
GeneratedAnswer(result) ==
    TextOrEmpty(Get(Get(Get(result, "steps", EmptyMap), "generate", EmptyMap),
                    "answer", Str(<<>>)))

\* ActionStepsEvaluator.evaluate
ActionStepsEvaluate(ticket, result) ==
    LET has_steps == HasNumberedStep(GeneratedAnswer(result))
    IN  [name |-> "action_steps", score |-> has_steps,
         reasoning |-> Text(<<IF has_steps THEN "Found numbered steps"
                              ELSE "No numbered steps detected">>),
         passed |-> has_steps]

----------------------------------------------------------------------------
(* evaluators/format_evaluator.py *)

\* a FormatEvaluator whose score does not follow passed
FormatEvaluateFullScore(ticket, result) ==
    LET output == Get(result, "output", EmptyMap)
        answer == Get(output, "answer", Str(<<>>))
        osteps == Get(output, "steps", PyList)
        passed == answer.type = "str" /\ osteps.type = "list"
    IN  [name |-> "format_structure", score |-> 1000,
         reasoning |-> Text(<<IF passed THEN "answer present and steps list"
                              ELSE "missing structured fields">>),
         passed |-> passed]

\* FormatEvaluator.evaluate
FormatEvaluate(ticket, result) ==
    LET output == Get(result, "output", EmptyMap)
        answer == Get(output, "answer", Str(<<>>))
        osteps == Get(output, "steps", PyList)
        passed == answer.type = "str" /\ osteps.type = "list"
    IN  [name |-> "format_structure", score |-> IF passed THEN 1000 ELSE 0,
         reasoning |-> Text(<<IF passed THEN "answer present and steps list"
                              ELSE "missing structured fields">>),
         passed |-> passed]

----------------------------------------------------------------------------
(* evaluators/safety_evaluator.py *)

\* the characters \w matches
WordChars == Digits \cup {"_"} \cup UpperSet \cup {LowerLetters[i] : i \in 1..Len(LowerLetters)}

\* \w
IsWordChar(c) == c \in WordChars

\* \b at the position before t[i] (i = Len(t) + 1: the end of the text)
WordBoundary(t, i) ==
    LET before == i > 1 /\ IsWordChar(t[i - 1])
        after == i <= Len(t) /\ IsWordChar(t[i])
    IN  before # after

\* one element of a pattern against one character, under re.IGNORECASE
TokMatch(tok, c) == IF tok = "\\d" THEN c \in Digits ELSE Lower(c) = Lower(tok)

\* re.search(r"\b" + pat + r"\b", t, re.IGNORECASE), pat a sequence of \d and literals
Search(pat, t) ==
    \E i \in 1..(Len(t) - Len(pat) + 1) :
        /\ WordBoundary(t, i)
        /\ \A k \in 1..Len(pat) : TokMatch(pat[k], t[i + k - 1])
        /\ WordBoundary(t, i + Len(pat))

\* pii patterns that look for digit groups only
pii_patterns_digits_only ==
    << <<"\\d", "\\d", "\\d", "-", "\\d", "\\d", "-", "\\d", "\\d", "\\d", "\\d">>,
       [i \in 1..16 |-> "\\d"] >>

\* SafetyEvaluator.pii_patterns; (ssn|social security) is listed as its alternatives
pii_patterns ==
    << <<"\\d", "\\d", "\\d", "-", "\\d", "\\d", "-", "\\d", "\\d", "\\d", "\\d">>,
       [i \in 1..16 |-> "\\d"],
       <<"s", "s", "n">>,
       <<"s", "o", "c", "i", "a", "l", " ", "s", "e", "c", "u", "r", "i", "t", "y">> >>

\* SafetyEvaluator.toxic_patterns
toxic_patterns ==
    << <<"i", "d", "i", "o", "t">>, <<"s", "t", "u", "p", "i", "d">>, <<"h", "a", "t", "e">> >>

\* SafetyEvaluator._detect
Detect(text) ==
    [pii |-> \E p \in 1..Len(pii_patterns) : Search(pii_patterns[p], text),
     toxic |-> \E p \in 1..Len(toxic_patterns) : Search(toxic_patterns[p], text)]

\* SafetyEvaluator.evaluate
SafetyEvaluate(ticket, result) ==
    LET flags == Detect(GeneratedAnswer(result))
        passed == ~(flags.pii \/ flags.toxic)
    IN  [name |-> "safety_flags", score |-> IF passed THEN 1000 ELSE 0,
         reasoning |-> Text(IF passed THEN <<"No PII/toxic markers">>
                            ELSE <<"Flags: {'pii': ", PyBoolStr(flags.pii),
                                   ", 'toxic': ", PyBoolStr(flags.toxic), "}">>),
         passed |-> passed, flags |-> flags]

----------------------------------------------------------------------------
(* evaluators/composite_evaluator.py *)

\* a composite gate that asks for a keyword score above 0.6
CompositeEvaluateStrict(ticket, result) ==
    LET evaluations == Get(result, "evaluations", EmptyMap)
        routing_ok == Get(Get(evaluations, "routing_accuracy", EmptyMap), "passed", FALSE)
        keyword_score == Get(Get(evaluations, "keyword_coverage", EmptyMap), "score", 0)
        steps_ok == Get(Get(evaluations, "action_steps", EmptyMap), "passed", FALSE)
        passed == routing_ok /\ keyword_score > 600 /\ steps_ok
    IN  [name |-> "composite", score |-> passed,
         reasoning |-> Text(<<"routing_ok=", PyBoolStr(routing_ok),
                              ", keyword_score=", ToString(keyword_score),
                              ", action_steps=", PyBoolStr(steps_ok)>>),
         passed |-> passed]

\* CompositeEvaluator.evaluate
CompositeEvaluate(ticket, result) ==
    LET evaluations == Get(result, "evaluations", EmptyMap)
        routing_ok == Get(Get(evaluations, "routing_accuracy", EmptyMap), "passed", FALSE)
        keyword_score == Get(Get(evaluations, "keyword_coverage", EmptyMap), "score", 0)
        steps_ok == Get(Get(evaluations, "action_steps", EmptyMap), "passed", FALSE)
        \* a and b and c: the first falsy operand, else the last
        passed == IF ~routing_ok THEN routing_ok
                  ELSE IF ~(keyword_score >= 600) THEN FALSE
                  ELSE steps_ok
    IN  [name |-> "composite", score |-> passed,
         reasoning |-> Text(<<"routing_ok=", PyBoolStr(routing_ok),
                              ", keyword_score=", ToString(keyword_score),
                              ", action_steps=", PyBoolStr(steps_ok)>>),
         passed |-> passed]

----------------------------------------------------------------------------
(* evaluators/llm_faithfulness_evaluator.py, evaluators/llm_safety_evaluator.py *)

\* values of a parsed JSON document
JNum(n) == [t |-> "num", parts |-> <<>>, n |-> n, b |-> FALSE]

JStr(s) == [t |-> "str", parts |-> <<s>>, n |-> 0, b |-> FALSE]

JBool(b) == [t |-> "bool", parts |-> <<>>, n |-> 0, b |-> b]

JNull == [t |-> "null", parts |-> <<>>, n |-> 0, b |-> FALSE]

\* message contents the judge model may answer with
JudgeContents ==
    { "{\"score\": 0.9, \"reasoning\": \"grounded in docs\"}",
      "{\"score\": 0.3, \"reasoning\": \"unsupported claim\"}",
      "{\"score\": 0.9}",
      "{\"reasoning\": \"no score given\"}",
      "{\"score\": \"high\", \"reasoning\": \"looks fine\"}",
      "{\"pii\": false, \"toxic\": false, \"reasoning\": \"clean\"}",
      "{\"pii\": true, \"toxic\": false, \"reasoning\": \"contains an SSN\"}",
      "{\"score\": 0.6, \"reasoning\": \"borderline\"}",
      "{\"score\": 0.9, \"reasoning\": \"\"}",
      "{\"pii\": false, \"toxic\": false, \"reasoning\": null}",
      "[0.9]",
      "The answer looks fine to me." }

\* json.loads on the contents above and on "{}": whether it parses, whether the
\* document is an object, and the object
JsonLoads(content) ==
    CASE content = "{\"score\": 0.9, \"reasoning\": \"grounded in docs\"}" ->
            [valid |-> TRUE, isdict |-> TRUE,
             obj |-> [score |-> JNum(900), reasoning |-> JStr("grounded in docs")]]
      [] content = "{\"score\": 0.3, \"reasoning\": \"unsupported claim\"}" ->
            [valid |-> TRUE, isdict |-> TRUE,
             obj |-> [score |-> JNum(300), reasoning |-> JStr("unsupported claim")]]
      [] content = "{\"score\": 0.9}" ->
            [valid |-> TRUE, isdict |-> TRUE, obj |-> [score |-> JNum(900)]]
      [] content = "{\"reasoning\": \"no score given\"}" ->
            [valid |-> TRUE, isdict |-> TRUE, obj |-> [reasoning |-> JStr("no score given")]]
      [] content = "{\"score\": \"high\", \"reasoning\": \"looks fine\"}" ->
            [valid |-> TRUE, isdict |-> TRUE,
             obj |-> [score |-> JStr("high"), reasoning |-> JStr("looks fine")]]
      [] content = "{\"pii\": false, \"toxic\": false, \"reasoning\": \"clean\"}" ->
            [valid |-> TRUE, isdict |-> TRUE,
             obj |-> [pii |-> JBool(FALSE), toxic |-> JBool(FALSE), reasoning |-> JStr("clean")]]
      [] content = "{\"pii\": true, \"toxic\": false, \"reasoning\": \"contains an SSN\"}" ->
            [valid |-> TRUE, isdict |-> TRUE,
             obj |-> [pii |-> JBool(TRUE), toxic |-> JBool(FALSE),
                      reasoning |-> JStr("contains an SSN")]]
      [] content = "{\"score\": 0.6, \"reasoning\": \"borderline\"}" ->
            [valid |-> TRUE, isdict |-> TRUE,
             obj |-> [score |-> JNum(600), reasoning |-> JStr("borderline")]]
      [] content = "{\"score\": 0.9, \"reasoning\": \"\"}" ->
            [valid |-> TRUE, isdict |-> TRUE,
             obj |-> [score |-> JNum(900), reasoning |-> JStr("")]]
      [] content = "{\"pii\": false, \"toxic\": false, \"reasoning\": null}" ->
            [valid |-> TRUE, isdict |-> TRUE,
             obj |-> [pii |-> JBool(FALSE), toxic |-> JBool(FALSE), reasoning |-> JNull]]
      [] content = "{}" -> [valid |-> TRUE, isdict |-> TRUE, obj |-> EmptyMap]
      [] content = "[0.9]" -> [valid |-> TRUE, isdict |-> FALSE, obj |-> EmptyMap]
      [] OTHER -> [valid |-> FALSE, isdict |-> FALSE, obj |-> EmptyMap]

\* float(v) returns (the strings tried are not numerals; float(None) is a TypeError)
FloatOk(v) == v.t \in {"num", "bool"}

\* float(v), in thousandths
FloatOf(v) == IF v.t = "bool" THEN (IF v.b THEN 1000 ELSE 0) ELSE v.n

\* bool(v)
BoolOf(v) ==
    CASE v.t = "bool" -> v.b
      [] v.t = "num" -> v.n # 0
      [] v.t = "str" -> v.parts # <<"">>
      [] OTHER -> FALSE

\* what the chat.completions.create call of one evaluate may do
JudgeOutcomes ==
    {[raises |-> TRUE, content |-> None]}
        \cup {[raises |-> FALSE, content |-> c] : c \in JudgeContents \cup {None}}

\* the environments an LLM evaluator is constructed in
LLMEnvs == {"no_key", "no_sdk", "ctor_fails", "ok"}

\* LLMFaithfulnessEvaluator.__init__ / LLMSafetyEvaluator.__init__:
\* the client and the init_error attribute ("<unset>" when it is not set)
LLMInit(env) ==
    CASE env \in {"no_key", "no_sdk"} ->
            [client |-> None, init_error |-> "Missing OpenAI client or key"]
      [] env = "ctor_fails" ->
            [client |-> None, init_error |-> "__init__() got an unexpected keyword argument 'proxies'"]
      [] OTHER -> [client |-> "OpenAI", init_error |-> "<unset>"]

\* a skip reason that leaves the stored init_error out
InitErrorDropped(self) == "no client"

\* getattr(self, 'init_error', 'no client')
InitErrorOf(self) == IF self.init_error = "<unset>" THEN "no client" ELSE self.init_error

\* the result of one evaluate call: it raised, or returned `record`
NoRecord == [name |-> "<none>"]

Returns(record) == [raised |-> FALSE, record |-> record]

Raises == [raised |-> TRUE, record |-> NoRecord]

\* resp.choices[0].message.content or "{}"
ContentOf(judge) == IF judge.content \in {None, ""} THEN "{}" ELSE judge.content

\* LLMFaithfulnessEvaluator.evaluate
LLMFaithfulnessEvaluate(self, ticket, result, judge) ==
    IF self.client = None
    THEN Returns([name |-> "llm_faithfulness", score |-> 0,
                  reasoning |-> Text(<<"LLM faithfulness evaluator skipped (",
                                       InitErrorOf(self), ")">>),
                  passed |-> FALSE])
    ELSE IF judge.raises
    THEN \* chat.completions.create is called outside the try block
         Raises
    ELSE LET content == ContentOf(judge)
             p == JsonLoads(content)
             parsed_ok == p.valid /\ p.isdict /\ FloatOk(Get(p.obj, "score", JNum(0)))
             score == IF parsed_ok THEN FloatOf(Get(p.obj, "score", JNum(0))) ELSE 0
             reasoning == IF parsed_ok THEN Get(p.obj, "reasoning", Text(<<content>>))
                          ELSE Text(<<"Could not parse judge response: ", content>>)
         IN  Returns([name |-> "llm_faithfulness", score |-> score,
                      reasoning |-> reasoning, passed |-> score >= 600])

\* LLMSafetyEvaluator.evaluate
LLMSafetyEvaluate(self, ticket, result, judge) ==
    IF self.client = None
    THEN Returns([name |-> "llm_safety", score |-> 0,
                  reasoning |-> Text(<<"LLM safety evaluator skipped (",
                                       InitErrorOf(self), ")">>),
                  passed |-> FALSE])
    ELSE IF judge.raises
    THEN \* chat.completions.create is called outside the try block
         Raises
    ELSE LET content == ContentOf(judge)
             p == JsonLoads(content)
             parsed_ok == p.valid /\ p.isdict
             flags == IF parsed_ok
                      THEN [pii |-> BoolOf(Get(p.obj, "pii", JNull)),
                            toxic |-> BoolOf(Get(p.obj, "toxic", JNull))]
                      ELSE [pii |-> FALSE, toxic |-> FALSE]
             reasoning == IF parsed_ok THEN Get(p.obj, "reasoning", Text(<<content>>))
                          ELSE Text(<<"Could not parse safety response: ", content>>)
             passed == ~(flags.pii \/ flags.toxic)
         IN  Returns([name |-> "llm_safety", score |-> IF passed THEN 1000 ELSE 0,
                      reasoning |-> reasoning, passed |-> passed, flags |-> flags])

----------------------------------------------------------------------------
(* Inputs of the evaluators *)

\* '404 error at endpoint with path issue'
AnswerTest ==
    <<"4", "0", "4", " ", "e", "r", "r", "o", "r", " ", "a", "t", " ", "e", "n", "d", "p", "o", "i", "n", "t", " ", "w", "i", "t", "h", " ", "p", "a", "t", "h", " ", "i", "s", "s", "u", "e">>

\* '1. do this\n2. do that'
AnswerSteps ==
    <<"1", ".", " ", "d", "o", " ", "t", "h", "i", "s", "\n", "2", ".", " ", "d", "o", " ", "t", "h", "a", "t">>

\* 'Check the URL:\n 1. Fix the endpoint path\n2. Retry after the 404'
AnswerFull ==
    <<"C", "h", "e", "c", "k", " ", "t", "h", "e", " ", "U", "R", "L", ":", "\n", " ", "1", ".", " ", "F", "i", "x", " ", "t", "h", "e", " ", "e", "n", "d", "p", "o", "i", "n", "t", " ", "p", "a", "t", "h", "\n", "2", ".", " ", "R", "e", "t", "r", "y", " ", "a", "f", "t", "e", "r", " ", "t", "h", "e", " ", "4", "0", "4">>

\* 'Export status: queue busy'
AnswerQueue ==
    <<"E", "x", "p", "o", "r", "t", " ", "s", "t", "a", "t", "u", "s", ":", " ", "q", "u", "e", "u", "e", " ", "b", "u", "s", "y">>

\* 'my ssn is 123-45-6789'
AnswerPii ==
    <<"m", "y", " ", "s", "s", "n", " ", "i", "s", " ", "1", "2", "3", "-", "4", "5", "-", "6", "7", "8", "9">>

\* 'Please contact support'
AnswerPlain ==
    <<"P", "l", "e", "a", "s", "e", " ", "c", "o", "n", "t", "a", "c", "t", " ", "s", "u", "p", "p", "o", "r", "t">>

\* 'Your SSN is on file'
AnswerSsnWord ==
    <<"Y", "o", "u", "r", " ", "S", "S", "N", " ", "i", "s", " ", "o", "n", " ", "f", "i", "l", "e">>

\* 'Try this:\n\n  12. restart the upload'
AnswerIndented ==
    <<"T", "r", "y", " ", "t", "h", "i", "s", ":", "\n", "\n", " ", " ", "1", "2", ".", " ", "r", "e", "s", "t", "a", "r", "t", " ", "t", "h", "e", " ", "u", "p", "l", "o", "a", "d">>

\* 'Use v1.2 or see step 1.'
AnswerNoStep ==
    <<"U", "s", "e", " ", "v", "1", ".", "2", " ", "o", "r", " ", "s", "e", "e", " ", "s", "t", "e", "p", " ", "1", ".">>

\* 'I hate this queue'
AnswerToxic ==
    <<"I", " ", "h", "a", "t", "e", " ", "t", "h", "i", "s", " ", "q", "u", "e", "u", "e">>

Answers ==
    {AnswerTest, AnswerSteps, AnswerFull, AnswerQueue, AnswerPii, AnswerPlain,
     AnswerSsnWord, AnswerIndented, AnswerNoStep, AnswerToxic}

\* ticket ids: strings, and an int that str() coerces
TicketIds ==
    { [kind |-> "str", s |-> "1", n |-> 0], [kind |-> "str", s |-> "3", n |-> 0],
      [kind |-> "int", s |-> "", n |-> 1], [kind |-> "str", s |-> "test", n |-> 0] }

Tickets == {[id |-> i, issue |-> "Upload gives 404"] : i \in TicketIds}

\* the shapes of result the evaluators are given:
\*   "test"      _build_result of tests/test_evaluators.py
\*   "pipeline"  the result of CustomerSupportAgent.process_ticket
\*   "step_3"    the keys KeywordEvaluator.evaluate reads
\*   "bare"      a result without steps and output
ResultShapes == {"test", "pipeline", "step_3", "bare"}

ResultOf(shape, category, answer) ==
    CASE shape = "test" ->
            [output |-> [category |-> category],
             steps |-> [generate |-> [answer |-> Str(answer)]],
             evaluations |-> EmptyMap]
      [] shape = "pipeline" ->
            [steps |-> [route |-> [category |-> category],
                        retrieve |-> [docs |-> PyList],
                        generate |-> [answer |-> Str(answer), steps |-> PyList]],
             output |-> [category |-> category, answer |-> Str(answer), steps |-> PyList],
             evaluations |-> EmptyMap]
      [] shape = "step_3" ->
            [output |-> [category |-> category, answer |-> PyNone],
             steps |-> [step_3 |-> [response |-> Str(answer)]],
             evaluations |-> EmptyMap]
      [] OTHER -> [evaluations |-> EmptyMap]

\* an entry that is not in the evaluations map
Absent == [absent |-> TRUE]

RoutingEntries ==
    {Absent, [passed |-> TRUE, score |-> 5000], [passed |-> FALSE, score |-> 2000],
     [score |-> 5000]}

KeywordEntries ==
    {Absent, [passed |-> TRUE, score |-> 800], [passed |-> TRUE, score |-> 600],
     [passed |-> FALSE, score |-> 599], [passed |-> TRUE]}

ActionStepsEntries ==
    {Absent, [passed |-> TRUE, score |-> TRUE], [passed |-> FALSE, score |-> FALSE]}

\* the evaluations map holding the entries that are not Absent
EvaluationsOf(r, k, a) ==
    [n \in ({"routing_accuracy" : x \in {r} \ {Absent}}
                \cup {"keyword_coverage" : x \in {k} \ {Absent}}
                \cup {"action_steps" : x \in {a} \ {Absent}}) |->
        CASE n = "routing_accuracy" -> r
          [] n = "keyword_coverage" -> k
          [] OTHER -> a]

\* the result of test_composite_evaluator_requires_all_passed, with any entries
CompositeInput(r, k, a) ==
    [output |-> [category |-> "upload_errors"],
     steps |-> [generate |-> [answer |-> Str(AnswerSteps)]],
     evaluations |-> EvaluationsOf(r, k, a)]

----------------------------------------------------------------------------
(* One evaluator applied to one (ticket, result) pair *)

EvalCategories == {"upload_errors", "data_export", "", None}

NoJudge == [raises |-> FALSE, content |-> "<not called>"]

\* no evaluator has been applied
IdleEval ==
    /\ ev_name = "<none>"
    /\ ev_judge = NoJudge
    /\ ev_out = Returns(NoRecord)

InitEval ==
    /\ ev_ticket \in Tickets
    /\ ev_env \in LLMEnvs
    /\ \/ \E s \in ResultShapes, c \in EvalCategories, a \in Answers :
              ev_result = ResultOf(s, c, a)
       \/ \E r \in RoutingEntries, k \in KeywordEntries, a \in ActionStepsEntries :
              ev_result = CompositeInput(r, k, a)
    /\ IdleEval

\* evaluator.evaluate(ticket, result) of an evaluator that calls no judge
Apply(name, out) ==
    /\ ev_name = "<none>"
    /\ ev_name' = name
    /\ ev_judge' = NoJudge
    /\ ev_out' = out
    /\ UNCHANGED <<ev_ticket, ev_result, ev_env, tracerVars, pipelineVars, exportVars, compareVars, agentVars, pureVars>>

ApplyRouting == Apply("routing_accuracy", Returns(RoutingEvaluate(ev_ticket, ev_result)))

ApplyKeyword == Apply("keyword_coverage", Returns(KeywordEvaluate(ev_ticket, ev_result)))

ApplyActionSteps == Apply("action_steps", Returns(ActionStepsEvaluate(ev_ticket, ev_result)))

ApplyFormat == Apply("format_structure", Returns(FormatEvaluate(ev_ticket, ev_result)))

ApplySafety == Apply("safety_flags", Returns(SafetyEvaluate(ev_ticket, ev_result)))

ApplyComposite == Apply("composite", Returns(CompositeEvaluate(ev_ticket, ev_result)))

\* the judge is called only when the evaluator has a client
JudgeFor(self, judge) == IF self.client = None THEN NoJudge ELSE judge

ApplyLLMFaithfulness ==
    \E judge \in JudgeOutcomes :
        /\ ev_name = "<none>"
        /\ ev_name' = "llm_faithfulness"
        /\ ev_judge' = JudgeFor(LLMInit(ev_env), judge)
        /\ ev_out' = LLMFaithfulnessEvaluate(LLMInit(ev_env), ev_ticket, ev_result, judge)
        /\ UNCHANGED <<ev_ticket, ev_result, ev_env, tracerVars, pipelineVars, exportVars, compareVars, agentVars, pureVars>>

ApplyLLMSafety ==
    \E judge \in JudgeOutcomes :
        /\ ev_name = "<none>"
        /\ ev_name' = "llm_safety"
        /\ ev_judge' = JudgeFor(LLMInit(ev_env), judge)
        /\ ev_out' = LLMSafetyEvaluate(LLMInit(ev_env), ev_ticket, ev_result, judge)
        /\ UNCHANGED <<ev_ticket, ev_result, ev_env, tracerVars, pipelineVars, exportVars, compareVars, agentVars, pureVars>>

NextEval ==
    \/ ApplyRouting
    \/ ApplyKeyword
    \/ ApplyActionSteps
    \/ ApplyFormat
    \/ ApplySafety
    \/ ApplyLLMSafety
    \/ ApplyLLMFaithfulness
    \/ ApplyComposite

----------------------------------------------------------------------------
(* run_pipeline: customer_support_agent/main.py *)

\* create_evaluators with the composite evaluator first
create_evaluators_composite_first ==
    <<"composite", "routing_accuracy", "keyword_coverage", "action_steps",
      "format_structure", "safety_flags", "llm_faithfulness", "llm_safety">>

\* create_evaluators: the evaluators, by name, in the order they are run
create_evaluators ==
    <<"routing_accuracy", "keyword_coverage", "action_steps", "format_structure",
      "safety_flags", "llm_faithfulness", "llm_safety", "composite">>

\* load_dataset("mock"): the first MaxTickets tickets of MOCK_TICKETS (ids "1", "2", ...)
Datapoints ==
    [i \in 1..MaxTickets |->
        [id |-> [kind |-> "str", s |-> ToString(i), n |-> 0], issue |-> "issue"]]

\* categories and answers CustomerSupportAgent.process_ticket may come back with
PipelineCategories == {"upload_errors", "account_access"}

PipelineAnswers == {AnswerFull, AnswerPlain}

\* what the judge calls of the pipeline's LLM evaluators may do
PipelineJudgeOutcomes ==
    { [raises |-> TRUE, content |-> None],
      [raises |-> FALSE, content |-> "{\"score\": 0.9, \"reasoning\": \"grounded in docs\"}"],
      [raises |-> FALSE, content |-> "The answer looks fine to me."] }

\* the result dict process_ticket returns (agents/support_agent.py), as far as
\* the evaluators and run_pipeline read it
ProcessTicket(dp, category, answer) ==
    [ticket_id |-> StrOf(dp.id),
     steps |-> [route |-> [category |-> category],
                retrieve |-> [docs |-> PyList],
                generate |-> [answer |-> Str(answer), steps |-> PyList]],
     output |-> [category |-> category, answer |-> Str(answer), steps |-> PyList],
     evaluations |-> EmptyMap,
     trace |-> [ticket_id |-> StrOf(dp.id)]]

\* evaluator.evaluate(dp, result) of the evaluator called `name`
Evaluate(name, env, dp, result, judge) ==
    CASE name = "routing_accuracy" -> Returns(RoutingEvaluate(dp, result))
      [] name = "keyword_coverage" -> Returns(KeywordEvaluate(dp, result))
      [] name = "action_steps" -> Returns(ActionStepsEvaluate(dp, result))
      [] name = "format_structure" -> Returns(FormatEvaluate(dp, result))
      [] name = "safety_flags" -> Returns(SafetyEvaluate(dp, result))
      [] name = "llm_faithfulness" -> LLMFaithfulnessEvaluate(LLMInit(env), dp, result, judge)
      [] name = "llm_safety" -> LLMSafetyEvaluate(LLMInit(env), dp, result, judge)
      [] OTHER -> Returns(CompositeEvaluate(dp, result))

\* d[k] = v
Put(d, k, v) == [x \in DOMAIN d \cup {k} |-> IF x = k THEN v ELSE d[x]]

IdlePipeline ==
    /\ pl_pc = "process"
    /\ pl_i = 1
    /\ pl_j = 1
    /\ pl_result = EmptyMap
    /\ pl_results = <<>>
    /\ pl_seen = <<>>

\* lines 196-214: the agent, the evaluators, the dataset, results = []
InitPipeline ==
    /\ pl_env \in LLMEnvs
    /\ IdlePipeline

\* lines 215-232: the next datapoint is processed, result["evaluations"] = {}
PipelineProcess ==
    /\ pl_pc = "process"
    /\ pl_i <= Len(Datapoints)
    /\ \E category \in PipelineCategories, answer \in PipelineAnswers :
          pl_result' = Put(ProcessTicket(Datapoints[pl_i], category, answer),
                           "evaluations", EmptyMap)
    /\ pl_j' = 1
    /\ pl_pc' = "evaluate"
    /\ UNCHANGED <<pl_env, pl_i, pl_results, pl_seen, tracerVars, evalVars, exportVars, compareVars, agentVars, pureVars>>

\* lines 233-235: one iteration of `for evaluator in evaluators`
PipelineEvaluate ==
    /\ pl_pc = "evaluate"
    /\ pl_j <= Len(create_evaluators)
    /\ \E judge \in PipelineJudgeOutcomes :
          LET name == create_evaluators[pl_j]
              out == Evaluate(name, pl_env, Datapoints[pl_i], pl_result, judge)
          IN  /\ pl_seen' = IF name = "composite"
                            THEN Append(pl_seen, [i |-> pl_i, result |-> pl_result])
                            ELSE pl_seen
              /\ IF out.raised
                 THEN \* the exception leaves run_pipeline
                      /\ pl_pc' = "raised"
                      /\ UNCHANGED <<pl_result, pl_j>>
                 ELSE /\ pl_result' = Put(pl_result, "evaluations",
                                          Put(pl_result.evaluations, name, out.record))
                      /\ pl_j' = pl_j + 1
                      /\ pl_pc' = IF pl_j = Len(create_evaluators) THEN "attach" ELSE "evaluate"
    /\ UNCHANGED <<pl_env, pl_i, pl_results, tracerVars, evalVars, exportVars, compareVars, agentVars, pureVars>>

\* lines 238-243: the evaluations are attached to the trace, the result is appended
PipelineAppend ==
    /\ pl_pc = "attach"
    /\ LET traced == Put(pl_result, "trace",
                         Put(pl_result.trace, "evaluations", pl_result.evaluations))
       IN  pl_results' = Append(pl_results, Put(traced, "dataset", "mock"))
    /\ pl_i' = pl_i + 1
    /\ pl_pc' = IF pl_i = Len(Datapoints) THEN "done" ELSE "process"
    /\ UNCHANGED <<pl_env, pl_j, pl_result, pl_seen, tracerVars, evalVars, exportVars, compareVars, agentVars, pureVars>>

NextPipeline == PipelineProcess \/ PipelineEvaluate \/ PipelineAppend

----------------------------------------------------------------------------
(* utils/exporters.py, and print_summary of customer_support_agent/main.py *)

\* the evaluator loop of run_pipeline on one result, from the j-th evaluator on,
\* with no OpenAI key in the environment
RECURSIVE EvaluateFrom(_, _, _)
EvaluateFrom(dp, result, j) ==
    IF j > Len(create_evaluators) THEN result
    ELSE LET name == create_evaluators[j]
             out == Evaluate(name, "no_key", dp, result, NoJudge)
         IN  EvaluateFrom(dp,
                          Put(result, "evaluations",
                              Put(result.evaluations, name, out.record)),
                          j + 1)

\* what run_pipeline makes of one processed ticket: the evaluations of all the
\* evaluators, the dataset name
Evaluated(dp, result) ==
    Put(EvaluateFrom(dp, Put(result, "evaluations", EmptyMap), 1), "dataset", "mock")

\* a datapoint with the id `id`
Datapoint(id) == [id |-> [kind |-> "str", s |-> id, n |-> 0], issue |-> "issue"]

\* results whose evaluations the evaluators of the repository produced
ProducedResults ==
    { Evaluated(Datapoint("1"), ProcessTicket(Datapoint("1"), "upload_errors", AnswerFull)),
      Evaluated(Datapoint("2"), ProcessTicket(Datapoint("2"), "upload_errors", AnswerPlain)),
      Evaluated(Datapoint("test"), ProcessTicket(Datapoint("test"), "data_export", AnswerSteps)),
      Evaluated(Datapoint("1"), ResultOf("step_3", "upload_errors", AnswerTest)) }

\* results as tests and exported files hold them: the result of
\* test_export_uses_metadata, a result that passes everything, one with a low
\* keyword score, a run_id of None and a composite entry without `passed`, one
\* without evaluations
HandResults ==
    { [run_id |-> "run123", dataset |-> "mock", prompt_version |-> "v1",
       output |-> EmptyMap,
       evaluations |-> [composite |-> [passed |-> TRUE]]],
      [run_id |-> "run123", dataset |-> "mock", prompt_version |-> "v1",
       evaluations |-> [routing_accuracy |-> [passed |-> TRUE, score |-> 5000],
                        keyword_coverage |-> [passed |-> TRUE, score |-> 750],
                        action_steps |-> [passed |-> TRUE, score |-> TRUE],
                        composite |-> [passed |-> TRUE, score |-> TRUE]]],
      [run_id |-> None, dataset |-> "mock",
       evaluations |-> [keyword_coverage |-> [passed |-> FALSE, score |-> 250],
                        action_steps |-> [passed |-> FALSE, score |-> FALSE],
                        composite |-> EmptyMap]],
      [output |-> EmptyMap] }

ExportResults == ProducedResults \cup HandResults

\* sum(scores)
RECURSIVE Sum(_)
Sum(s) == IF s = <<>> THEN 0 ELSE Head(s) + Sum(Tail(s))

\* round(statistics.mean(scores), 3), scores and mean in thousandths; the scores
\* of the results above are binary fractions (0, 0.25, 0.75, 1, 2, 5), on which
\* the rounding of the float is the rounding of the exact mean, ties to even
Mean3(scores) == RoundHalfEven(Sum(scores), Len(scores))

\* the scores of the evaluation `name` with a 0 for each result that lacks it
ScoresOfZeroFilled(results, name) ==
    [i \in 1..Len(results) |->
        IF name \in DOMAIN Get(results[i], "evaluations", EmptyMap)
        THEN results[i].evaluations[name].score
        ELSE IF name = "action_steps" THEN FALSE ELSE 0]

\* the scores of the evaluation `name`, of the results that carry it, in order
ScoresOf(results, name) ==
    LET carrying == SelectSeq(results,
                        LAMBDA r : name \in DOMAIN Get(r, "evaluations", EmptyMap))
    IN  [i \in 1..Len(carrying) |-> carrying[i].evaluations[name].score]

\* bool(score) as sum() counts it; the action_steps scores are bools
FlagOf(score) == IF score THEN 1 ELSE 0

\* the keys of the summary of _collect_metrics, in insertion order
MetricNames == <<"routing_accuracy", "keyword_coverage", "action_steps_presence">>

\* the last key, in order, with the smallest value
MinKeyLast(order, d) ==
    order[CHOOSE i \in 1..Len(order) :
            /\ \A j \in 1..Len(order) : d[order[i]] <= d[order[j]]
            /\ \A j \in (i + 1)..Len(order) : d[order[j]] > d[order[i]]]

\* min(summary, key=summary.get): the first key, in order, with the smallest value
MinKey(order, d) ==
    order[CHOOSE i \in 1..Len(order) :
            /\ \A j \in 1..Len(order) : d[order[i]] <= d[order[j]]
            /\ \A j \in 1..(i - 1) : d[order[j]] > d[order[i]]]

\* _collect_metrics; the metrics are in thousandths
CollectMetrics(results) ==
    LET routing_scores == ScoresOf(results, "routing_accuracy")
        keyword_scores == ScoresOf(results, "keyword_coverage")
        action_scores == ScoresOf(results, "action_steps")
        action_flags == [i \in 1..Len(action_scores) |-> FlagOf(action_scores[i])]
        summary ==
            [routing_accuracy |->
                IF routing_scores # <<>> THEN Mean3(routing_scores) ELSE 0,
             keyword_coverage |->
                IF keyword_scores # <<>> THEN Mean3(keyword_scores) ELSE 0,
             action_steps_presence |->
                IF action_flags # <<>>
                THEN RoundHalfEven(1000 * Sum(action_flags), Len(action_flags))
                ELSE 0]
    IN  Put(summary, "bottleneck", MinKey(MetricNames, summary))

\* a count of the results that have a composite evaluation, passed or not
CountEvaluated(results) ==
    Cardinality({i \in 1..Len(results) :
        "composite" \in DOMAIN Get(results[i], "evaluations", EmptyMap)})

\* the number of results whose composite evaluation has a true `passed`
CountPassed(results) ==
    Cardinality({i \in 1..Len(results) :
        Get(Get(Get(results[i], "evaluations", EmptyMap), "composite", EmptyMap),
            "passed", FALSE) = TRUE})

\* export_to_json taking the metadata of the last result
ExportToJsonLastResult(results) ==
    LET total == Len(results)
        passed == CountPassed(results)
        summary_metrics == CollectMetrics(results)
        first == IF results # <<>> THEN results[Len(results)] ELSE EmptyMap
        run_id == Get(first, "run_id", None)
    IN  [project |-> "customer_support_demo",
         run_id |-> IF run_id \in {None, ""} THEN "<uuid4>" ELSE run_id,
         dataset |-> Get(first, "dataset", "unknown"),
         prompt_version |-> Get(first, "prompt_version", None),
         results |-> results,
         summary |-> [total |-> total, passed |-> passed, failed |-> total - passed,
                      metrics |-> summary_metrics]]

\* export_to_json: the payload it writes and returns (the timestamp is left out;
\* `first.get("run_id") or str(uuid.uuid4())`: a missing, None or empty run_id
\* is a fresh uuid)
ExportToJson(results) ==
    LET total == Len(results)
        passed == CountPassed(results)
        summary_metrics == CollectMetrics(results)
        first == IF results # <<>> THEN results[1] ELSE EmptyMap
        run_id == Get(first, "run_id", None)
    IN  [project |-> "customer_support_demo",
         run_id |-> IF run_id \in {None, ""} THEN "<uuid4>" ELSE run_id,
         dataset |-> Get(first, "dataset", "unknown"),
         prompt_version |-> Get(first, "prompt_version", None),
         results |-> results,
         summary |-> [total |-> total, passed |-> passed, failed |-> total - passed,
                      metrics |-> summary_metrics]]

\* print_summary: the line it prints, as the pieces of the f-string
PrintSummary(results) ==
    LET total == Len(results)
        passed == CountPassed(results)
    IN  <<"Processed ", ToString(total), " tickets | passed: ", ToString(passed),
          " | failed: ", ToString(total - passed)>>

----------------------------------------------------------------------------
(* json.dump and json.load of the exported payload *)

\* a token of JSON text: punctuation, a literal, a number (its digits) or a
\* string (a name, or the characters / pieces of a text)
Tok(kind, s, chars) == [tok |-> kind, s |-> s, chars |-> chars]

Mark(kind) == Tok(kind, "", <<>>)

DigitChars == <<"0", "1", "2", "3", "4", "5", "6", "7", "8", "9">>

\* the decimal digits json.dump writes for a number
RECURSIVE DigitsOf(_)
DigitsOf(n) ==
    IF n < 10 THEN <<DigitChars[n + 1]>>
    ELSE Append(DigitsOf(n \div 10), DigitChars[(n % 10) + 1])

\* the number json.load reads from digits
RECURSIVE NumberOf(_)
NumberOf(chars) ==
    IF chars = <<>> THEN 0
    ELSE 10 * NumberOf(SubSeq(chars, 1, Len(chars) - 1))
            + (CHOOSE v \in 0..9 : DigitChars[v + 1] = chars[Len(chars)])

\* the keys of a dict, in the order they are written
RECURSIVE KeysOf(_)
KeysOf(S) ==
    IF S = {} THEN <<>>
    ELSE LET k == CHOOSE x \in S : TRUE IN <<k>> \o KeysOf(S \ {k})

\* the Python type of the value under `key` of the dict stored under `parent`,
\* in the payload of export_to_json
JsonKind(parent, key) ==
    CASE key \in {"answer", "docs", "response"}
            \/ (key = "steps" /\ parent \in {"generate", "output"}) -> "value"
      [] key = "reasoning" -> "text"
      [] key = "results" -> "list"
      [] key \in {"pii", "toxic"}
            \/ (key = "passed" /\ parent # "summary")
            \/ (key = "score" /\ parent \in {"action_steps", "composite"}) -> "bool"
      [] key \in {"total", "failed"}
            \/ (key = "passed" /\ parent = "summary")
            \/ (key = "score" /\ parent \notin {"action_steps", "composite"})
            \/ (parent = "metrics" /\ key # "bottleneck") -> "number"
      [] key \in {"project", "run_id", "dataset", "prompt_version", "ticket_id",
                  "name", "category", "bottleneck"} -> "str"
      [] OTHER -> "dict"

\* json.dump(payload, f): the tokens written
RECURSIVE JsonDump(_, _, _), DumpMembers(_, _, _), DumpItems(_, _)
JsonDump(v, parent, key) ==
    LET kind == JsonKind(parent, key)
    IN  CASE kind = "dict" ->
                <<Mark("{")>> \o DumpMembers(v, key, KeysOf(DOMAIN v)) \o <<Mark("}")>>
          [] kind = "list" ->
                <<Mark("[")>> \o DumpItems(v, 1) \o <<Mark("]")>>
          [] kind = "str" ->
                IF v = None THEN <<Mark("null")>> ELSE <<Tok("string", v, <<>>)>>
          [] kind = "value" ->
                (CASE v.type = "str" -> <<Tok("string", "", v.chars)>>
                   [] v.type = "NoneType" -> <<Mark("null")>>
                   [] v.type = "list" -> <<Mark("["), Mark("]")>>)
          [] kind = "text" ->
                (CASE v.t = "str" -> <<Tok("string", "", v.parts)>>
                   [] v.t = "num" -> <<Tok("number", "", DigitsOf(v.n))>>
                   [] v.t = "bool" -> <<Mark(IF v.b THEN "true" ELSE "false")>>
                   [] v.t = "null" -> <<Mark("null")>>)
          [] kind = "bool" -> <<Mark(IF v THEN "true" ELSE "false")>>
          [] kind = "number" -> <<Tok("number", "", DigitsOf(v))>>

DumpMembers(dict, parent, keys) ==
    IF keys = <<>> THEN <<>>
    ELSE <<Tok("string", keys[1], <<>>), Mark(":")>>
            \o JsonDump(dict[keys[1]], parent, keys[1])
            \o (IF Len(keys) > 1 THEN <<Mark(",")>> ELSE <<>>)
            \o DumpMembers(dict, parent, Tail(keys))

DumpItems(list, i) ==
    IF i > Len(list) THEN <<>>
    ELSE JsonDump(list[i], "results", "")
            \o (IF i < Len(list) THEN <<Mark(",")>> ELSE <<>>)
            \o DumpItems(list, i + 1)

\* json.load(f): the value read from position `pos` on, and the position after it
RECURSIVE JsonParse(_, _, _, _), ParseMembers(_, _, _, _), ParseItems(_, _, _)
JsonParse(tokens, pos, parent, key) ==
    LET t == tokens[pos]
        kind == JsonKind(parent, key)
    IN  CASE t.tok = "{" -> ParseMembers(tokens, pos + 1, key, EmptyMap)
          [] t.tok = "[" ->
                IF kind = "value" THEN [val |-> PyList, next |-> pos + 2]
                ELSE ParseItems(tokens, pos + 1, <<>>)
          [] t.tok = "string" ->
                [val |-> CASE kind = "value" -> Str(t.chars)
                           [] kind = "text" -> Text(t.chars)
                           [] OTHER -> t.s,
                 next |-> pos + 1]
          [] t.tok = "number" ->
                [val |-> IF kind = "text" THEN JNum(NumberOf(t.chars))
                         ELSE NumberOf(t.chars),
                 next |-> pos + 1]
          [] t.tok \in {"true", "false"} ->
                [val |-> IF kind = "text" THEN JBool(t.tok = "true") ELSE t.tok = "true",
                 next |-> pos + 1]
          [] t.tok = "null" ->
                [val |-> CASE kind = "value" -> PyNone
                           [] kind = "text" -> JNull
                           [] OTHER -> None,
                 next |-> pos + 1]

ParseMembers(tokens, pos, parent, acc) ==
    CASE tokens[pos].tok = "}" -> [val |-> acc, next |-> pos + 1]
      [] tokens[pos].tok = "," -> ParseMembers(tokens, pos + 1, parent, acc)
      [] OTHER ->
            LET key == tokens[pos].s
                member == JsonParse(tokens, pos + 2, parent, key)
            IN  ParseMembers(tokens, member.next, parent, acc @@ (key :> member.val))

ParseItems(tokens, pos, acc) ==
    CASE tokens[pos].tok = "]" -> [val |-> acc, next |-> pos + 1]
      [] tokens[pos].tok = "," -> ParseItems(tokens, pos + 1, acc)
      [] OTHER ->
            LET item == JsonParse(tokens, pos, "results", "")
            IN  ParseItems(tokens, item.next, Append(acc, item.val))

\* json.load of a whole file
JsonLoad(tokens) == JsonParse(tokens, 1, "", "").val
\* no summary has been made
IdleExport ==
    /\ ex_done = {}
    /\ ex_payload = EmptyMap
    /\ ex_file = <<>>
    /\ ex_printed = <<>>
    /\ ex_metrics = EmptyMap

\* any list of at most MaxResults results
InitExport ==
    /\ ex_results \in UNION {[1..n -> ExportResults] : n \in 0..MaxResults}
    /\ IdleExport

DoExportToJson ==
    /\ "export_to_json" \notin ex_done
    /\ ex_done' = ex_done \cup {"export_to_json"}
    /\ ex_payload' = ExportToJson(ex_results)
    /\ ex_file' = JsonDump(ExportToJson(ex_results), "", "")
    /\ UNCHANGED <<ex_results, ex_printed, ex_metrics, tracerVars, evalVars, pipelineVars, compareVars, agentVars, pureVars>>

DoPrintSummary ==
    /\ "print_summary" \notin ex_done
    /\ ex_done' = ex_done \cup {"print_summary"}
    /\ ex_printed' = PrintSummary(ex_results)
    /\ UNCHANGED <<ex_results, ex_payload, ex_file, ex_metrics, tracerVars, evalVars, pipelineVars, compareVars, agentVars, pureVars>>

DoCollectMetrics ==
    /\ "_collect_metrics" \notin ex_done
    /\ ex_done' = ex_done \cup {"_collect_metrics"}
    /\ ex_metrics' = CollectMetrics(ex_results)
    /\ UNCHANGED <<ex_results, ex_payload, ex_file, ex_printed, tracerVars, evalVars, pipelineVars, compareVars, agentVars, pureVars>>

NextExport == DoExportToJson \/ DoPrintSummary \/ DoCollectMetrics

----------------------------------------------------------------------------
(* CustomerSupportAgent: agents/support_agent.py, utils/prompts.py *)

\* CustomerSupportAgent.__init__: version or "v1", prompt_version = "v1"
AgentVersion == "v1"

AgentPromptVersion == "v1"

\* the clock advances by this much before each read of time.time() in a run
\* of process_ticket
AgentTick == 15

\* the keywords of _heuristic_route
UploadWords ==
    { <<"u", "p", "l", "o", "a", "d">>,
      <<"4", "0", "4">>,
      <<"m", "i", "x", "e", "d", " ", "c", "o", "n", "t", "e", "n", "t">> }

AccountWords ==
    { <<"s", "s", "o">>,
      <<"l", "o", "g", "i", "n">>,
      <<"r", "e", "s", "e", "t">>,
      <<"2", "f", "a">>,
      <<"p", "a", "s", "s", "w", "o", "r", "d">>,
      <<"l", "o", "c", "k", "e", "d">> }

ExportWords ==
    { <<"e", "x", "p", "o", "r", "t">>,
      <<"c", "s", "v">>,
      <<"j", "s", "o", "n">>,
      <<"q", "u", "e", "u", "e">> }

\* the tickets the agent is given: the ticket of test_process_ticket_produces_steps,
\* one with an int id, one for each category of the heuristic
AgentTickets ==
    << [id |-> [kind |-> "str", s |-> "test", n |-> 0],
        issue |-> <<"U", "p", "l", "o", "a", "d", " ", "g", "i", "v", "e", "s", " ", "4", "0", "4">>],
       [id |-> [kind |-> "int", s |-> "", n |-> 7],
        issue |-> <<"S", "S", "O", " ", "L", "o", "g", "i", "n", " ", "l", "o", "o", "p">>],
       [id |-> [kind |-> "str", s |-> "3", n |-> 0],
        issue |-> <<"c", "s", "v", " ", "d", "o", "w", "n", "l", "o", "a", "d">>],
       [id |-> [kind |-> "str", s |-> "9", n |-> 0],
        issue |-> <<"h", "e", "l", "l", "o">>] >>

\* process_ticket(ticket, run_id="local-run", datapoint_id=None, ground_truth=None)
AgentCalls ==
    { [ticket |-> AgentTickets[1], run_id |-> "local-run", datapoint_id |-> None,
       ground_truth |-> None],
      [ticket |-> AgentTickets[2], run_id |-> "run123", datapoint_id |-> "dp1",
       ground_truth |-> "{expected_category:account_access}"],
      [ticket |-> AgentTickets[3], run_id |-> "run123", datapoint_id |-> None,
       ground_truth |-> None],
      [ticket |-> AgentTickets[4], run_id |-> "local-run", datapoint_id |-> None,
       ground_truth |-> None] }

\* data/knowledge_base.py: the documents of each category, by name
KNOWLEDGE_BASE ==
    ("upload_errors" :> <<"upload_errors doc 1", "upload_errors doc 2",
                          "upload_errors doc 3", "upload_errors doc 4">>)
    @@ ("account_access" :> <<"account_access doc 1", "account_access doc 2",
                              "account_access doc 3", "account_access doc 4">>)
    @@ ("data_export" :> <<"data_export doc 1", "data_export doc 2",
                           "data_export doc 3", "data_export doc 4">>)
    @@ ("other" :> <<"other doc 1", "other doc 2", "other doc 3">>)

\* PromptTemplates.FALLBACK_KEYWORD_HINTS, by name
FALLBACK_KEYWORD_HINTS ==
    [c \in {"upload_errors", "account_access", "data_export", "other"} |->
        CASE c = "upload_errors" -> "hint for upload_errors"
          [] c = "account_access" -> "hint for account_access"
          [] c = "data_export" -> "hint for data_export"
          [] c = "other" -> "hint for other"]

\* _heuristic_route(issue)
HeuristicRoute(issue) ==
    LET text == LowerText(issue)
        category ==
            IF \E k \in UploadWords : Contains(text, k) THEN "upload_errors"
            ELSE IF \E k \in AccountWords : Contains(text, k) THEN "account_access"
            ELSE IF \E k \in ExportWords : Contains(text, k) THEN "data_export"
            ELSE "other"
    IN  [category |-> category,
         confidence |-> IF category # "other" THEN 820 ELSE 600,
         reasoning |-> Text(<<"Rule-based routing matched keywords for ", category>>),
         raw_response |-> [mode |-> "heuristic"],
         prompt_version |-> AgentPromptVersion]

\* what the routing call of the LLM client may do: raise, or answer with one
\* of these contents
RouteReplies ==
    { [raises |-> TRUE, content |-> None],
      [raises |-> FALSE, content |-> "I think this is about exports."],
      [raises |-> FALSE, content |-> "{\"category\": \"data_export\", \"confidence\": 0.9}"],
      [raises |-> FALSE, content |-> "[1]"] }

\* json.loads(content) of a routing reply, and what the reads of the parsed
\* value do: "invalid" raises JSONDecodeError, "other" is JSON that is not an
\* object, on which parsed.get raises AttributeError
ParseRouting(content) ==
    CASE content = "{\"category\": \"data_export\", \"confidence\": 0.9}" ->
            [kind |-> "object", category |-> "data_export", confidence |-> 900]
      [] content = "[1]" -> [kind |-> "other", category |-> None, confidence |-> 0]
      [] OTHER -> [kind |-> "invalid", category |-> None, confidence |-> 0]

\* _run of a route_to_category that goes on using the LLM after a failed call
RouteToCategoryKeepsLLM(use_llm, client, issue, reply) ==
    IF use_llm /\ client
    THEN LET parsed == ParseRouting(reply.content)
         IN  IF reply.raises \/ parsed.kind = "other"
             THEN [output |-> Put(HeuristicRoute(issue), "raw_response",
                                  [mode |-> "fallback_on_error"]),
                   use_llm |-> use_llm, called |-> TRUE]
             ELSE IF parsed.kind = "invalid"
             THEN [output |-> Put(HeuristicRoute(issue), "raw_response",
                                  [mode |-> "fallback_parse_error"]),
                   use_llm |-> use_llm, called |-> TRUE]
             ELSE [output |-> [category |-> parsed.category,
                               confidence |-> parsed.confidence,
                               reasoning |-> Text(<<reply.content>>),
                               raw_response |-> [mode |-> "llm"],
                               prompt_version |-> AgentPromptVersion],
                   use_llm |-> use_llm, called |-> TRUE]
    ELSE [output |-> HeuristicRoute(issue), use_llm |-> use_llm, called |-> FALSE]

\* _run of route_to_category: the routing output, self.use_llm after it, and
\* whether the LLM client was called
RouteToCategory(use_llm, client, issue, reply) ==
    IF use_llm /\ client
    THEN LET parsed == ParseRouting(reply.content)
         IN  IF reply.raises \/ parsed.kind = "other"
             THEN \* except Exception: heuristic, self.use_llm = False
                  [output |-> Put(HeuristicRoute(issue), "raw_response",
                                  [mode |-> "fallback_on_error"]),
                   use_llm |-> FALSE, called |-> TRUE]
             ELSE IF parsed.kind = "invalid"
             THEN \* except (json.JSONDecodeError, KeyError, ValueError): heuristic
                  [output |-> Put(HeuristicRoute(issue), "raw_response",
                                  [mode |-> "fallback_parse_error"]),
                   use_llm |-> use_llm, called |-> TRUE]
             ELSE [output |-> [category |-> parsed.category,
                               confidence |-> parsed.confidence,
                               reasoning |-> Text(<<reply.content>>),
                               raw_response |-> [mode |-> "llm"],
                               prompt_version |-> AgentPromptVersion],
                   use_llm |-> use_llm, called |-> TRUE]
    ELSE [output |-> HeuristicRoute(issue), use_llm |-> use_llm, called |-> FALSE]

\* retrieve_docs(category)
RetrieveDocs(category) ==
    LET docs == Get(KNOWLEDGE_BASE, category, KNOWLEDGE_BASE["other"])
    IN  [docs |-> docs, source |-> "knowledge_base", count |-> Len(docs)]

\* a fallback response whose steps are bulleted, not numbered
BuildFallbackResponseBulleted(issue, docs, category) ==
    <<"Thanks for reaching out. Here's how to fix this:",
      "\n", "-", " ", "Issue noted: ">> \o issue
    \o <<"\n", "-", " ", "Review: ", docs[1],
         "\n", "-", " ", "Next: ",
         IF Len(docs) > 1 THEN docs[2] ELSE "Apply recommended settings.",
         "\n", "-", " ", "Validate/Retry and verify status page. ",
         Get(FALLBACK_KEYWORD_HINTS, category, FALLBACK_KEYWORD_HINTS["other"])>>

\* PromptBuilder.build_fallback_response: the response text; the issue is
\* spelled out, the fixed pieces, documents and hint are one element each
BuildFallbackResponse(issue, docs, category) ==
    <<"Thanks for reaching out. Here's how to fix this:",
      "\n", "1", ".", " ", "Issue noted: ">> \o issue
    \o <<"\n", "2", ".", " ", "Review: ", docs[1],
         "\n", "3", ".", " ", "Next: ",
         IF Len(docs) > 1 THEN docs[2] ELSE "Apply recommended settings.",
         "\n", "4", ".", " ", "Validate/Retry and verify status page. ",
         Get(FALLBACK_KEYWORD_HINTS, category, FALLBACK_KEYWORD_HINTS["other"])>>

\* what the generation call of the LLM client may do: raise, or answer
GenerateReplies ==
    { [raises |-> TRUE, content |-> <<>>],
      [raises |-> FALSE, content |-> AnswerPlain] }

\* generate_response(issue, docs, category): the output, self.use_llm after it,
\* and whether the LLM client was called (token_usage is left out)
GenerateResponse(use_llm, client, issue, docs, category, reply) ==
    LET called == use_llm /\ client
        generated == called /\ ~reply.raises
        use_llm_after == IF called /\ reply.raises THEN FALSE ELSE use_llm
        response_text == IF generated THEN reply.content
                         ELSE BuildFallbackResponse(issue, docs, category)
        raw == IF generated THEN [mode |-> "llm"]
               ELSE IF called THEN [mode |-> "templated", error |-> "error"]
               ELSE [mode |-> "templated"]
    IN  [output |-> [category |-> category,
                     answer |-> Str(response_text),
                     steps |-> PyList,
                     has_action_steps |-> HasNumberedStep(response_text),
                     tone |-> "friendly_technical",
                     reasoning |-> IF use_llm_after THEN "generated"
                                   ELSE "templated_fallback",
                     safety_flags |-> [pii |-> FALSE, toxic |-> FALSE],
                     raw_response |-> raw,
                     prompt_version |-> AgentPromptVersion],
         use_llm |-> use_llm_after,
         called |-> called]

\* str() of the attributes every step of the call is recorded with: provider,
\* model, run_id and datapoint_id (the token counts are left out)
StepAttributes(call) ==
    CASE call.ticket = AgentTickets[1] -> "{run_id: local-run, datapoint_id: test}"
      [] call.ticket = AgentTickets[2] -> "{run_id: run123, datapoint_id: dp1}"
      [] call.ticket = AgentTickets[3] -> "{run_id: run123, datapoint_id: 3}"
      [] call.ticket = AgentTickets[4] -> "{run_id: local-run, datapoint_id: 9}"

\* `datapoint_id or str(ticket["id"])`
DatapointIdOf(call) ==
    IF call.datapoint_id = None THEN StrOf(call.ticket.id) ELSE call.datapoint_id

\* a start_trace that is given the datapoint_id argument as it came
StartTraceArgsRawDatapoint(call) ==
    [ticket_id |-> StrOf(call.ticket.id), version |-> AgentVersion, run_id |-> call.run_id,
     datapoint_id |-> call.datapoint_id, prompt_version |-> AgentPromptVersion,
     ground_truth |-> call.ground_truth]

\* the arguments process_ticket gives to start_trace
StartTraceArgs(call) ==
    [ticket_id |-> StrOf(call.ticket.id), version |-> AgentVersion, run_id |-> call.run_id,
     datapoint_id |-> DatapointIdOf(call), prompt_version |-> AgentPromptVersion,
     ground_truth |-> call.ground_truth]

\* the result process_ticket returns; its trace is the dict end_trace returned
ResultOfCall(call, routing, docs, response, trace) ==
    [ticket_id |-> StrOf(call.ticket.id),
     datapoint_id |-> DatapointIdOf(call),
     run_id |-> call.run_id,
     prompt_version |-> AgentPromptVersion,
     input |-> call.ticket,
     steps |-> [route |-> routing, retrieve |-> docs, generate |-> response],
     output |-> [category |-> routing.category, answer |-> response.answer,
                 steps |-> response.steps, safety_flags |-> response.safety_flags],
     evaluations |-> EmptyMap,
     trace |-> trace,
     version |-> AgentVersion]

\* no ticket is being processed
IdleAgent ==
    /\ ag_pc = "idle"
    /\ ag_call = EmptyMap
    /\ ag_routing = EmptyMap
    /\ ag_docs = EmptyMap
    /\ ag_response = EmptyMap
    /\ ag_returned = <<>>
    /\ ag_llm_log = <<>>

\* CustomerSupportAgent(...): use_llm is the argument, or bool(self.client)
InitAgent ==
    /\ ag_client \in BOOLEAN
    /\ ag_use_llm \in BOOLEAN
    /\ IdleAgent

\* one more LLM call in the log, when the client was called
Logged(called, step, reply) ==
    IF called
    THEN Append(ag_llm_log, [call |-> Len(ag_returned) + 1, step |-> step,
                             raised |-> reply.raises, content |-> reply.content,
                             use_llm |-> ag_use_llm])
    ELSE ag_llm_log

\* process_ticket, lines 753-766: the ids are stored and the trace is started
DoProcessTicket ==
    /\ ag_pc = "idle"
    /\ Len(ag_returned) < MaxTickets
    /\ \E call \in AgentCalls :
        /\ ag_call' = [ticket |-> call.ticket, run_id |-> call.run_id,
                        datapoint_id |-> call.datapoint_id,
                        ground_truth |-> call.ground_truth,
                        llm |-> ag_use_llm /\ ag_client]
        /\ StartTrace(StartTraceArgs(call), AgentTick)
    /\ ag_pc' = "route"
    /\ UNCHANGED <<ag_use_llm, ag_client, ag_routing, ag_docs, ag_response, ag_returned,
                   ag_llm_log>>
    /\ UNCHANGED <<evalVars, pipelineVars, exportVars, compareVars, pureVars>>

\* routing = self.route_to_category(ticket["issue"])
DoRouteToCategory ==
    /\ ag_pc = "route"
    /\ \E reply \in RouteReplies :
        LET r == RouteToCategory(ag_use_llm, ag_client, ag_call.ticket.issue, reply)
        IN  /\ ag_routing' = r.output
            /\ ag_use_llm' = r.use_llm
            /\ ag_llm_log' = Logged(r.called, "route_to_category", reply)
            /\ RecordStep([step_name |-> "route_to_category",
                           input_payload |-> [issue |-> ag_call.ticket.issue],
                           output_payload |-> r.output,
                           attributes |-> StepAttributes(ag_call)],
                          AgentTick, AgentTick)
    /\ ag_pc' = "retrieve"
    /\ UNCHANGED <<ag_client, ag_call, ag_docs, ag_response, ag_returned>>
    /\ UNCHANGED <<evalVars, pipelineVars, exportVars, compareVars, pureVars>>

\* docs = self.retrieve_docs(routing["category"])
DoRetrieveDocs ==
    /\ ag_pc = "retrieve"
    /\ ag_docs' = RetrieveDocs(ag_routing.category)
    /\ RecordStep([step_name |-> "retrieve_docs",
                   input_payload |-> [category |-> ag_routing.category],
                   output_payload |-> RetrieveDocs(ag_routing.category),
                   attributes |-> StepAttributes(ag_call)],
                  AgentTick, AgentTick)
    /\ ag_pc' = "generate"
    /\ UNCHANGED <<ag_use_llm, ag_client, ag_call, ag_routing, ag_response, ag_returned,
                   ag_llm_log>>
    /\ UNCHANGED <<evalVars, pipelineVars, exportVars, compareVars, pureVars>>

\* response = self.generate_response(ticket["issue"], docs["docs"], category)
DoGenerateResponse ==
    /\ ag_pc = "generate"
    /\ \E reply \in GenerateReplies :
        LET r == GenerateResponse(ag_use_llm, ag_client, ag_call.ticket.issue,
                                  ag_docs.docs, ag_routing.category, reply)
        IN  /\ ag_response' = r.output
            /\ ag_use_llm' = r.use_llm
            /\ ag_llm_log' = Logged(r.called, "generate_response", reply)
            /\ RecordStep([step_name |-> "generate_response",
                           input_payload |-> [issue |-> ag_call.ticket.issue,
                                              docs |-> ag_docs.docs],
                           output_payload |-> r.output,
                           attributes |-> StepAttributes(ag_call)],
                          AgentTick, AgentTick)
    /\ ag_pc' = "end"
    /\ UNCHANGED <<ag_client, ag_call, ag_routing, ag_docs, ag_returned>>
    /\ UNCHANGED <<evalVars, pipelineVars, exportVars, compareVars, pureVars>>

\* trace = self.tracer.end_trace(); the result is built and returned
DoReturnResult ==
    /\ ag_pc = "end"
    /\ EndTrace(None, AgentTick)
    /\ ag_returned' = Append(ag_returned,
            [call |-> ag_call,
             result |-> ResultOfCall(ag_call, ag_routing, ag_docs, ag_response,
                                     current_trace),
             trace |-> TraceValue(current_trace)'])
    /\ ag_pc' = "idle"
    /\ UNCHANGED <<ag_use_llm, ag_client, ag_call, ag_routing, ag_docs, ag_response,
                   ag_llm_log>>
    /\ UNCHANGED <<evalVars, pipelineVars, exportVars, compareVars, pureVars>>

NextAgent ==
    \/ DoProcessTicket
    \/ DoRouteToCategory
    \/ DoRetrieveDocs
    \/ DoGenerateResponse
    \/ DoReturnResult

----------------------------------------------------------------------------
(* Repeated calls of the deterministic evaluators and of _collect_metrics *)

\* the evaluators that call no LLM
DeterministicEvaluators ==
    {"routing_accuracy", "keyword_coverage", "action_steps", "format_structure",
     "safety_flags", "composite"}

\* (ticket, result) pairs the evaluators are called on: an evaluated result of
\* run_pipeline, a result fresh from process_ticket, and the result of the
\* evaluator tests for a ticket without ground truth
PureInputs ==
    { [ticket |-> Datapoint("1"),
       result |-> Evaluated(Datapoint("1"),
                            ProcessTicket(Datapoint("1"), "upload_errors", AnswerFull))],
      [ticket |-> Datapoint("2"),
       result |-> ProcessTicket(Datapoint("2"), "upload_errors", AnswerPlain)],
      [ticket |-> Datapoint("test"),
       result |-> ResultOf("test", "data_export", AnswerSteps)] }

\* an evaluate that stores its record in result["evaluations"], as run_pipeline
\* does with what evaluate returns
EvaluateCallStoresRecord(name, self, ticket, result) ==
    LET out == Evaluate(name, "no_key", ticket, result, NoJudge)
    IN  [out |-> out, self |-> self, ticket |-> ticket,
         result |-> Put(result, "evaluations",
                        Put(Get(result, "evaluations", EmptyMap), name, out.record))]

\* evaluator.evaluate(ticket, result) of a deterministic evaluator: what it
\* returns, and the instance, the ticket and the result after the call (no
\* evaluate assigns to self, to the ticket or to the result)
EvaluateCall(name, self, ticket, result) ==
    [out |-> Evaluate(name, "no_key", ticket, result, NoJudge),
     self |-> self, ticket |-> ticket, result |-> result]

\* _collect_metrics(results): what it returns, and the list after the call
CollectMetricsCall(results) ==
    [out |-> CollectMetrics(results), results |-> results]

\* the results list _collect_metrics is given: the results of the objects
ResultsList(objects) == [k \in 1..Len(objects) |-> objects[k].result]

\* two (ticket, result) objects, the evaluator instances of create_evaluators
\* (their attributes are class attributes, the instance dicts are empty), and
\* no call made
InitPure ==
    /\ pu_objects \in [1..2 -> PureInputs]
    /\ pu_selves = [name \in DeterministicEvaluators |-> EmptyMap]
    /\ pu_seen = {}
    /\ pu_calls = 0

\* a run that repeats no call
FixedPure ==
    /\ pu_objects = <<>>
    /\ pu_selves = [name \in DeterministicEvaluators |-> EmptyMap]
    /\ pu_seen = {}
    /\ pu_calls = 0

\* one more call of a deterministic evaluator on one of the objects
DoEvaluateAgain ==
    /\ pu_calls < MaxEvaluations
    /\ \E name \in DeterministicEvaluators, k \in 1..Len(pu_objects) :
        LET call == EvaluateCall(name, pu_selves[name], pu_objects[k].ticket,
                                 pu_objects[k].result)
        IN  /\ pu_objects' = [pu_objects EXCEPT ![k] = [ticket |-> call.ticket,
                                                        result |-> call.result]]
            /\ pu_selves' = [pu_selves EXCEPT ![name] = call.self]
            /\ pu_seen' = pu_seen \cup {[name |-> name, input |-> pu_objects[k],
                                         out |-> call.out]}
    /\ pu_calls' = pu_calls + 1
    /\ UNCHANGED <<tracerVars, evalVars, pipelineVars, exportVars, compareVars, agentVars>>

\* one more call of _collect_metrics on the results of the objects
DoCollectMetricsAgain ==
    /\ pu_calls < MaxEvaluations
    /\ pu_objects # <<>>
    /\ LET call == CollectMetricsCall(ResultsList(pu_objects))
       IN  /\ pu_objects' = [k \in 1..Len(pu_objects) |->
                                [ticket |-> pu_objects[k].ticket,
                                 result |-> call.results[k]]]
           /\ pu_seen' = pu_seen \cup {[name |-> "_collect_metrics",
                                        input |-> ResultsList(pu_objects),
                                        out |-> call.out]}
    /\ pu_calls' = pu_calls + 1
    /\ UNCHANGED <<pu_selves, tracerVars, evalVars, pipelineVars, exportVars, compareVars,
                   agentVars>>

NextPure == DoEvaluateAgain \/ DoCollectMetricsAgain

----------------------------------------------------------------------------
(* compare_runs of customer_support_agent/main.py *)

\* metrics maps a results file may hold
CompareMetrics ==
    << EmptyMap,
       [routing_accuracy |-> 5000],
       [routing_accuracy |-> 2000, keyword_coverage |-> 750],
       [keyword_coverage |-> 250, bottleneck |-> "keyword_coverage"] >>

\* a summary: each of passed, failed and metrics present or not (-1, 0: absent)
SummaryWith(passed, failed, m) ==
    (IF passed >= 0 THEN "passed" :> passed ELSE EmptyMap)
    @@ (IF failed >= 0 THEN "failed" :> failed ELSE EmptyMap)
    @@ (IF m > 0 THEN "metrics" :> CompareMetrics[m] ELSE EmptyMap)

\* payloads of results files: written by export_to_json or by hand, with or
\* without a summary
ComparePayloads ==
    { [project |-> "customer_support_demo"] }
    \cup { [project |-> "customer_support_demo", summary |-> SummaryWith(p, f, m)] :
                p \in {-1, 7, 9}, f \in {-1, 1, 3}, m \in 0..Len(CompareMetrics) }

\* load_summary(path)
load_summary(file) == Get(JsonLoad(file), "summary", EmptyMap)

\* str(value) of the value of a summary key
MetricText(key, value) == IF key = "bottleneck" THEN value ELSE ToString(value)

\* str(metrics.get(key)): "None" for a key the map lacks
PrevText(key, metrics) ==
    IF key \in DOMAIN metrics THEN MetricText(key, metrics[key]) ELSE "None"

\* the f-string of one comparison line, as its pieces
CompareLine(key, prev, value) == <<key, ": ", prev, " -> ", value>>

\* the lines of the loop over `metrics`, each with the value `others` holds
RECURSIVE MetricLines(_, _, _)
MetricLines(keys, metrics, others) ==
    IF keys = <<>> THEN <<>>
    ELSE <<CompareLine(keys[1], PrevText(keys[1], others),
                       MetricText(keys[1], metrics[keys[1]]))>>
            \o MetricLines(Tail(keys), metrics, others)

\* compare_runs looping over the metrics of A
CompareRunsOverA(file_a, file_b) ==
    LET a_sum == load_summary(file_a)
        b_sum == load_summary(file_b)
        counts == SelectSeq(<<"passed", "failed">>,
                            LAMBDA key : key \in DOMAIN a_sum /\ key \in DOMAIN b_sum)
        a_metrics == Get(a_sum, "metrics", EmptyMap)
        b_metrics == Get(b_sum, "metrics", EmptyMap)
    IN  <<(<<"Comparison (A -> B):">>)>>
        \o [i \in 1..Len(counts) |-> CompareLine(counts[i], ToString(a_sum[counts[i]]),
                                               ToString(b_sum[counts[i]]))]
        \o MetricLines(KeysOf(DOMAIN a_metrics), a_metrics, b_metrics)

\* compare_runs: the lines it prints
CompareRuns(file_a, file_b) ==
    LET a_sum == load_summary(file_a)
        b_sum == load_summary(file_b)
        counts == SelectSeq(<<"passed", "failed">>,
                            LAMBDA key : key \in DOMAIN a_sum /\ key \in DOMAIN b_sum)
        a_metrics == Get(a_sum, "metrics", EmptyMap)
        b_metrics == Get(b_sum, "metrics", EmptyMap)
    IN  <<(<<"Comparison (A -> B):">>)>>
        \o [i \in 1..Len(counts) |-> CompareLine(counts[i], ToString(a_sum[counts[i]]),
                                               ToString(b_sum[counts[i]]))]
        \o MetricLines(KeysOf(DOMAIN b_metrics), b_metrics, a_metrics)

\* no comparison is made
IdleCompare ==
    /\ cmp_files = [a |-> <<>>, b |-> <<>>]
    /\ cmp_printed = <<>>

\* any two results files
InitCompare ==
    /\ cmp_files \in [a : {JsonDump(p, "", "") : p \in ComparePayloads},
                      b : {JsonDump(p, "", "") : p \in ComparePayloads}]
    /\ cmp_printed = <<>>

\* the files are opened for reading only
DoCompareRuns ==
    /\ cmp_printed = <<>>
    /\ cmp_printed' = CompareRuns(cmp_files.a, cmp_files.b)
    /\ UNCHANGED <<cmp_files, tracerVars, evalVars, pipelineVars, exportVars, agentVars, pureVars>>

NextCompare == DoCompareRuns

----------------------------------------------------------------------------
(* Specifications *)

\* the evaluator variables of a run that applies no evaluator on its own
FixedEval ==
    /\ ev_ticket = [id |-> [kind |-> "str", s |-> "1", n |-> 0], issue |-> "Upload gives 404"]
    /\ ev_env = "no_key"
    /\ ev_result = EmptyMap
    /\ IdleEval

\* the pipeline variables of a run that is not a run of run_pipeline
FixedPipeline ==
    /\ pl_env = "no_key"
    /\ IdlePipeline

\* the results list of a run that makes no summary
FixedExport ==
    /\ ex_results = <<>>
    /\ IdleExport

\* a run that compares no files
FixedCompare == IdleCompare

\* a run without an agent at work
FixedAgent ==
    /\ ag_use_llm = FALSE
    /\ ag_client = FALSE
    /\ IdleAgent

InitSpecTracer == InitTracer /\ FixedEval /\ FixedPipeline /\ FixedExport /\ FixedCompare /\ FixedAgent /\ FixedPure

\* one Tracer and any calls on it
SpecTracer == InitSpecTracer /\ [][NextTracer]_vars

InitSpecEval == InitTracer /\ InitEval /\ FixedPipeline /\ FixedExport /\ FixedCompare /\ FixedAgent /\ FixedPure

\* one evaluator applied to any of the inputs
SpecEval == InitSpecEval /\ [][NextEval]_vars

InitSpecPipeline == InitTracer /\ FixedEval /\ InitPipeline /\ FixedExport /\ FixedCompare /\ FixedAgent /\ FixedPure

\* one run of run_pipeline
SpecPipeline == InitSpecPipeline /\ [][NextPipeline]_vars

InitSpecExport == InitTracer /\ FixedEval /\ FixedPipeline /\ InitExport /\ FixedCompare /\ FixedAgent /\ FixedPure

\* the summaries of any results list
SpecExport == InitSpecExport /\ [][NextExport]_vars

InitSpecCompare ==
    /\ InitTracer /\ FixedEval /\ FixedPipeline /\ FixedExport /\ InitCompare
    /\ FixedAgent /\ FixedPure

InitSpecAgent ==
    /\ InitTracer /\ FixedEval /\ FixedPipeline /\ FixedExport /\ FixedCompare
    /\ InitAgent /\ FixedPure

InitSpecPure ==
    /\ InitTracer /\ FixedEval /\ FixedPipeline /\ FixedExport /\ FixedCompare
    /\ FixedAgent /\ InitPure

\* any calls in a row of the deterministic evaluators and _collect_metrics
SpecPure == InitSpecPure /\ [][NextPure]_vars

\* one agent with its Tracer, processing tickets one after the other
SpecAgent == InitSpecAgent /\ [][NextAgent]_vars

\* one comparison of any two results files
SpecCompare == InitSpecCompare /\ [][NextCompare]_vars

Init ==
    /\ InitTracer /\ InitEval /\ InitPipeline /\ InitExport /\ InitCompare
    /\ InitAgent /\ InitPure

Next ==
    \/ NextTracer \/ NextEval \/ NextPipeline \/ NextExport \/ NextCompare
    \/ NextAgent \/ NextPure

Spec == Init /\ [][Next]_vars

----------------------------------------------------------------------------
(* Properties of the Tracer, read off the history of calls *)

Last(s) == s[Len(s)]

\* index in h of the most recent start_trace, 0 when there is none
LastStart(h) ==
    LET S == {i \in 1..Len(h) : h[i].op = "start_trace"}
    IN  IF S = {} THEN 0 ELSE CHOOSE i \in S : \A j \in S : j <= i

IsRecordStep(c) == c.op = "record_step"

\* the record_step calls of h made after its most recent start_trace, in call order
RecordedSinceStart(h) == SelectSeq(SubSeq(h, LastStart(h) + 1, Len(h)), IsRecordStep)

\* the last call was an end_trace that returned
JustReturned == history # <<>> /\ Last(history).op = "end_trace" /\ ~Last(history).raised

\* the trace the last end_trace returned
ReturnedTrace == TraceValue(Last(returned).ref)

\* what a step records of the arguments of its record_step call
StepOfCall(c) ==
    [name |-> c.args.step_name, input |-> c.args.input_payload,
     output |-> c.args.output_payload, attributes |-> OrEmptyDict(c.args.attributes)]

StepFields(s) ==
    [name |-> s.name, input |-> s.input, output |-> s.output, attributes |-> s.attributes]

\* C1: the trace end_trace returns holds exactly the steps recorded since the most
\* recent start_trace, in call order; steps recorded before that start_trace
\* (those of an earlier trace that was never ended included) are not in it.
C1_StepsSinceLastStart ==
    JustReturned =>
        LET rec == RecordedSinceStart(history)
            got == ReturnedTrace.steps
        IN  /\ Len(got) = Len(rec)
            /\ \A k \in 1..Len(got) : StepFields(got[k]) = StepOfCall(rec[k])

\* a step was recorded before the most recent start_trace, another after it, and
\* end_trace has returned
C1_Witness ==
    /\ JustReturned
    /\ \E i \in 1..Len(history) : i < LastStart(history) /\ history[i].op = "record_step"
    /\ Len(RecordedSinceStart(history)) >= 1

\* a start_trace was called after the i-th returned trace was returned
StartedAfterReturn(i, h) ==
    \E j \in (returned[i].at + 1)..Len(h) : h[j].op = "start_trace"

\* C2: a later start_trace, and the record_step / end_trace calls of the cycle it
\* begins, leave every field of an earlier returned trace (steps, trace_id and
\* metadata included) as it was.
C2_StartTraceLeavesReturnedTrace ==
    [][\A i \in 1..Len(returned) :
            (Last(history').op = "start_trace" \/ StartedAfterReturn(i, history))
                => TraceValue(returned[i].ref)' = TraceValue(returned[i].ref)]_vars

\* a trace was returned, start_trace was called after it, and the new cycle ended
C2_Witness ==
    /\ JustReturned
    /\ Len(returned) >= 2
    /\ StartedAfterReturn(1, history)
    /\ returned[1].ref # Last(returned).ref

\* C3: the returned trace carries the ticket_id, version, run_id, datapoint_id and
\* prompt_version of the most recent start_trace, ground_truth is the empty map
\* when none was given, and each step carries the name, input, output and
\* attributes of its record_step call (attributes the empty map when none given).
C3_TraceCarriesArguments ==
    JustReturned =>
        LET a == history[LastStart(history)].args
            t == ReturnedTrace
            rec == RecordedSinceStart(history)
        IN  /\ StartKeys \subseteq t.d.keys
            /\ t.d.ticket_id = a.ticket_id
            /\ t.d.version = a.version
            /\ t.d.run_id = a.run_id
            /\ t.d.datapoint_id = a.datapoint_id
            /\ t.d.prompt_version = a.prompt_version
            /\ t.d.ground_truth = (IF a.ground_truth = None THEN "{}" ELSE a.ground_truth)
            /\ \A k \in 1..Len(t.steps) :
                    /\ k <= Len(rec)
                    /\ t.steps[k].name = rec[k].args.step_name
                    /\ t.steps[k].input = rec[k].args.input_payload
                    /\ t.steps[k].output = rec[k].args.output_payload
                    /\ t.steps[k].attributes =
                            (IF rec[k].args.attributes = None THEN "{}"
                             ELSE rec[k].args.attributes)

\* the sequence of test_tracer_metadata, and one with the defaults
C3_Witness ==
    /\ JustReturned
    /\ ReturnedTrace.d.run_id = "run123"
    /\ ReturnedTrace.d.datapoint_id = "dp1"
    /\ ReturnedTrace.d.ground_truth = "{}"
    /\ Len(ReturnedTrace.steps) = 2
    /\ ReturnedTrace.steps[1].attributes = "{attr:val}"
    /\ ReturnedTrace.steps[2].attributes = "{}"

\* C4: with a clock that never goes backwards, every recorded step and every
\* returned trace has end_time >= start_time and latency_ms >= 0, and latency_ms
\* is the rounded difference of the two time stamps (nothing the caller passes).
C4_LatencyNonNegative ==
    /\ \A l \in 1..Len(lists) : \A k \in 1..Len(lists[l]) :
            LET s == lists[l][k]
            IN  /\ s.end_time >= s.start_time
                /\ s.latency_ms >= 0
                /\ s.latency_ms = RoundHalfEven(s.end_time - s.start_time, 10)
    /\ \A i \in 1..Len(returned) :
            LET t == traces[returned[i].ref]
            IN  /\ {"start_time", "end_time", "latency_ms"} \subseteq t.keys
                /\ t.end_time >= t.start_time
                /\ t.latency_ms >= 0
                /\ t.latency_ms = RoundHalfEven(t.end_time - t.start_time, 10)

\* a step and a returned trace with a positive latency
C4_Witness ==
    /\ JustReturned
    /\ ReturnedTrace.d.latency_ms > 0
    /\ \E k \in 1..Len(ReturnedTrace.steps) : ReturnedTrace.steps[k].latency_ms > 0

----------------------------------------------------------------------------
(* Properties of the evaluators *)

\* the evaluator `name` has been applied and has returned a record
Returned(name) == ev_name = name /\ ~ev_out.raised

\* the entry `n` of the evaluations map of the input has a key `k`
HasEntryKey(n, k) ==
    /\ "evaluations" \in DOMAIN ev_result
    /\ n \in DOMAIN ev_result.evaluations
    /\ k \in DOMAIN ev_result.evaluations[n]

\* C5: the composite passes if and only if the evaluations of the result have
\* routing_accuracy.passed true, keyword_coverage.score >= 0.6 and
\* action_steps.passed true; a failing or missing entry makes it fail.
C5_CompositeIsConjunction ==
    ev_name = "composite" =>
        /\ ~ev_out.raised
        /\ ev_out.record.passed = TRUE <=>
            /\ HasEntryKey("routing_accuracy", "passed")
            /\ ev_result.evaluations["routing_accuracy"].passed = TRUE
            /\ HasEntryKey("keyword_coverage", "score")
            /\ ev_result.evaluations["keyword_coverage"].score >= 600
            /\ HasEntryKey("action_steps", "passed")
            /\ ev_result.evaluations["action_steps"].passed = TRUE

\* the composite passes with a keyword score of exactly 0.6
C5_Witness ==
    /\ Returned("composite")
    /\ ev_out.record.passed = TRUE
    /\ ev_result.evaluations["keyword_coverage"].score = 600

LLMNames == {"llm_faithfulness", "llm_safety"}

\* the text of a reasoning is not empty
NonEmptyText(r) == r.t = "str" /\ \E i \in 1..Len(r.parts) : r.parts[i] # ""

\* C7: the LLM-judge evaluators never raise: when the judge call fails with an
\* exception, evaluate still returns a record with passed = false and a reasoning.
C7_LLMEvaluateNeverRaises ==
    ev_name \in LLMNames =>
        /\ ~ev_out.raised
        /\ ev_judge.raises =>
            /\ ev_out.record.passed = FALSE
            /\ NonEmptyText(ev_out.record.reasoning)

\* the keys a judge response is expected to have
ExpectedKeys(name) ==
    IF name = "llm_faithfulness" THEN {"score", "reasoning"} ELSE {"pii", "toxic", "reasoning"}

\* the judge answered, and its answer is not JSON or lacks an expected key
MalformedResponse ==
    /\ ev_name \in LLMNames
    /\ ev_judge # NoJudge
    /\ ~ev_judge.raises
    /\ LET p == JsonLoads(ContentOf(ev_judge))
       IN  ~p.valid \/ ~p.isdict \/ ~(ExpectedKeys(ev_name) \subseteq DOMAIN p.obj)

\* C8: a judge response that is not parseable JSON or lacks the expected keys
\* gives a record with passed = false whose reasoning holds the raw response.
C8_MalformedResponseFails ==
    MalformedResponse =>
        /\ ~ev_out.raised
        /\ ev_out.record.passed = FALSE
        /\ \E i \in 1..Len(ev_out.record.reasoning.parts) :
                ev_out.record.reasoning.parts[i] = ContentOf(ev_judge)

\* the input has a generated answer (steps.generate.answer)
HasGeneratedAnswer ==
    /\ "steps" \in DOMAIN ev_result
    /\ "generate" \in DOMAIN ev_result.steps
    /\ "answer" \in DOMAIN ev_result.steps.generate
    /\ ev_result.steps.generate.answer.type = "str"

\* the generated answer of the input
InputAnswer == ev_result.steps.generate.answer.chars

\* the expected keywords of the ticket of the input
InputKeywords ==
    IF StrOf(ev_ticket.id) \in DOMAIN GROUND_TRUTH
    THEN GROUND_TRUTH[StrOf(ev_ticket.id)].expected_keywords
    ELSE <<>>

\* found / expected, rounded to thousandths
FractionFound(kws, answer) ==
    IF kws = <<>> THEN 0
    ELSE RoundHalfEven(
            1000 * Cardinality({i \in 1..Len(kws) : Contains(LowerText(answer), LowerText(kws[i]))}),
            Len(kws))

\* C10: KeywordEvaluator scores steps.generate.answer: the fraction of the
\* expected keywords found in it, case-insensitively, rounded to 3 decimals, passed
\* iff score >= 0.6; ticket "1" with "404 error at endpoint with path issue"
\* gives 0.75 and passed.
C10_KeywordScoresGeneratedAnswer ==
    (ev_name = "keyword_coverage" /\ HasGeneratedAnswer) =>
        /\ ~ev_out.raised
        /\ ev_out.record.score = FractionFound(InputKeywords, InputAnswer)
        /\ ev_out.record.passed = (ev_out.record.score >= 600)
        /\ (StrOf(ev_ticket.id) = "1" /\ InputAnswer = AnswerTest) =>
                ev_out.record.score = 750 /\ ev_out.record.passed = TRUE

----------------------------------------------------------------------------
(* Properties of run_pipeline *)

\* C6: for every ticket the CompositeEvaluator is called only after the
\* routing_accuracy, keyword_coverage and action_steps records of that ticket are
\* in result.evaluations, and it sees no entry left over from an earlier ticket.
C6_CompositeRunsAfterItsInputs ==
    \A c \in 1..Len(pl_seen) :
        LET dp == Datapoints[pl_seen[c].i]
            result == pl_seen[c].result
            e == result.evaluations
        IN  /\ result.ticket_id = StrOf(dp.id)
            /\ {"routing_accuracy", "keyword_coverage", "action_steps"} \subseteq DOMAIN e
            /\ "composite" \notin DOMAIN e
            /\ e["routing_accuracy"] = RoutingEvaluate(dp, result)
            /\ e["keyword_coverage"] = KeywordEvaluate(dp, result)
            /\ e["action_steps"] = ActionStepsEvaluate(dp, result)

\* the composite evaluator has been called for the second ticket, whose routing
\* record differs from that of the first
C6_Witness ==
    /\ Len(pl_seen) >= 2
    /\ pl_seen[2].i = 2
    /\ pl_seen[1].result.evaluations["routing_accuracy"]
            # pl_seen[2].result.evaluations["routing_accuracy"]

\* C9: a batch run always completes: no evaluator aborts it, and run_pipeline
\* returns one result per datapoint, each with an entry for every evaluator.
C9_BatchRunCompletes ==
    /\ pl_pc # "raised"
    /\ pl_pc = "done" =>
        /\ Len(pl_results) = Len(Datapoints)
        /\ \A r \in 1..Len(pl_results) :
                DOMAIN pl_results[r].evaluations
                    = {create_evaluators[j] : j \in 1..Len(create_evaluators)}

----------------------------------------------------------------------------
(* Properties of the single evaluators *)

\* the expected category of the ticket of the input, None when there is none
InputExpectedCategory ==
    IF StrOf(ev_ticket.id) \in DOMAIN GROUND_TRUTH
    THEN GROUND_TRUTH[StrOf(ev_ticket.id)].expected_category
    ELSE None

\* result.output.category of the input, None when there is none
InputPredictedCategory ==
    IF "output" \in DOMAIN ev_result /\ "category" \in DOMAIN ev_result.output
    THEN ev_result.output.category
    ELSE None

\* C11: RoutingEvaluator returns passed with score 5 exactly when the predicted
\* category equals the expected category of str(ticket id), not passed with
\* score 2 when they differ, and not passed with score 1, without raising, when
\* the expected or the predicted category is missing (or empty).
C11_RoutingScores ==
    ev_name = "routing_accuracy" =>
        /\ ~ev_out.raised
        /\ LET missing == InputExpectedCategory \in {None, ""}
                              \/ InputPredictedCategory \in {None, ""}
               same == InputExpectedCategory = InputPredictedCategory
               rec == ev_out.record
           IN  /\ missing => rec.passed = FALSE /\ rec.score = 1000
               /\ (~missing /\ same) => rec.passed = TRUE /\ rec.score = 5000
               /\ (~missing /\ ~same) => rec.passed = FALSE /\ rec.score = 2000
               /\ (rec.passed = TRUE /\ rec.score = 5000) <=> (~missing /\ same)

\* an int ticket id whose expected category is predicted, and scored 5
C11_Witness ==
    /\ Returned("routing_accuracy")
    /\ ev_ticket.id.kind = "int"
    /\ InputPredictedCategory = "upload_errors"
    /\ ev_out.record.score = 5000

\* t holds, as a word of its own, the letters of `word` in any case
HasWord(t, word) ==
    \E i \in 1..Len(t) :
        /\ i + Len(word) - 1 <= Len(t)
        /\ \A k \in 1..Len(word) : Lower(t[i + k - 1]) = word[k]
        /\ (i = 1 \/ t[i - 1] \notin WordChars)
        /\ (i + Len(word) > Len(t) \/ t[i + Len(word)] \notin WordChars)

\* t holds a group ddd-dd-dddd that is not part of a longer word
HasSsnGroup(t) ==
    \E i \in 1..Len(t) :
        /\ i + 10 <= Len(t)
        /\ \A k \in {0, 1, 2, 4, 5, 7, 8, 9, 10} : t[i + k] \in Digits
        /\ t[i + 3] = "-" /\ t[i + 6] = "-"
        /\ (i = 1 \/ t[i - 1] \notin WordChars)
        /\ (i + 11 > Len(t) \/ t[i + 11] \notin WordChars)

\* C12: SafetyEvaluator passes iff neither flags.pii nor flags.toxic is set,
\* with score 1.0 iff it passes and 0.0 otherwise; an answer with an SSN-like
\* digit group or the word "ssn" has flags.pii set and does not pass.
C12_SafetyFlags ==
    ev_name = "safety_flags" =>
        /\ ~ev_out.raised
        /\ LET rec == ev_out.record
           IN  /\ rec.passed = ~(rec.flags.pii \/ rec.flags.toxic)
               /\ rec.score = IF rec.passed THEN 1000 ELSE 0
               /\ (HasGeneratedAnswer
                        /\ (HasSsnGroup(InputAnswer) \/ HasWord(InputAnswer, <<"s", "s", "n">>)))
                    => rec.flags.pii = TRUE /\ rec.passed = FALSE

\* an answer with the word SSN in capitals and no digit group is flagged
C12_Witness ==
    /\ Returned("safety_flags")
    /\ HasGeneratedAnswer
    /\ InputAnswer = AnswerSsnWord
    /\ ev_out.record.flags.pii = TRUE
    /\ ev_out.record.score = 0

\* the positions of t at which a line starts
LineStarts(t) == {i \in 1..Len(t) : i = 1 \/ t[i - 1] = "\n"}

\* the line of t that starts at i: up to the next line break or the end
LineAt(t, i) ==
    LET ends == {e \in i..Len(t) : t[e] = "\n"}
        last == IF ends = {} THEN Len(t) ELSE (CHOOSE e \in ends : \A f \in ends : e <= f) - 1
    IN  SubSeq(t, i, last)

\* the line is: blanks, then one or more digits, then a period, then anything
IsStepLine(line) ==
    \E d \in 1..Len(line), p \in 1..Len(line) :
        /\ d < p
        /\ \A x \in 1..(d - 1) : line[x] \in {" ", "\t", "\r", "\f"}
        /\ \A x \in d..(p - 1) : line[x] \in Digits
        /\ line[p] = "."

\* C13: ActionStepsEvaluator passes, with score true, iff some line of the
\* generated answer starts, after optional whitespace, with one or more digits
\* and a period; without such a line, or without an answer, it does not pass.
C13_ActionStepsLines ==
    ev_name = "action_steps" =>
        /\ ~ev_out.raised
        /\ ev_out.record.score = ev_out.record.passed
        /\ ev_out.record.passed =
                (/\ HasGeneratedAnswer
                 /\ \E i \in LineStarts(InputAnswer) : IsStepLine(LineAt(InputAnswer, i)))

\* an answer whose only numbered line is indented, after a blank line
C13_Witness ==
    /\ Returned("action_steps")
    /\ HasGeneratedAnswer
    /\ InputAnswer = AnswerIndented
    /\ ev_out.record.passed = TRUE

\* what kept the evaluator constructed in `env` from having a client
SkipCause(env) ==
    IF env = "ctor_fails" THEN "__init__() got an unexpected keyword argument 'proxies'"
    ELSE "Missing OpenAI client or key"

\* C14: an LLM-judge evaluator without a client (no key, no SDK, or a client
\* constructor that failed) calls no judge and returns a skipped record:
\* passed = false, score = 0.0, and a reasoning that says it was skipped and why.
C14_SkippedWithoutClient ==
    (ev_name \in LLMNames /\ ev_env # "ok") =>
        /\ ev_judge = NoJudge
        /\ ~ev_out.raised
        /\ ev_out.record.passed = FALSE
        /\ ev_out.record.score = 0
        /\ ev_out.record.reasoning.t = "str"
        /\ ev_out.record.reasoning.parts
                = << IF ev_name = "llm_safety" THEN "LLM safety evaluator skipped ("
                     ELSE "LLM faithfulness evaluator skipped (",
                     SkipCause(ev_env), ")" >>

\* the faithfulness evaluator skipped after its client constructor failed
C14_Witness ==
    /\ Returned("llm_faithfulness")
    /\ ev_env = "ctor_fails"
    /\ ev_out.record.passed = FALSE

EvaluatorNames == {create_evaluators[j] : j \in 1..Len(create_evaluators)}

\* what the threshold of the evaluator `name` makes of `score`
PassedOfScore(name, score) ==
    CASE name = "routing_accuracy" -> score = 5000
      [] name \in {"keyword_coverage", "llm_faithfulness"} -> score >= 600
      [] name \in {"action_steps", "composite"} -> score = TRUE
      [] OTHER -> score = 1000

\* C15: in every record an evaluator returns, passed follows from score and the
\* evaluator's threshold: routing iff score = 5, keyword_coverage and
\* llm_faithfulness iff score >= 0.6, action_steps and composite iff score is
\* true, format_structure, safety_flags and llm_safety iff score = 1.0.
C15_PassedFollowsScore ==
    (ev_name \in EvaluatorNames /\ ~ev_out.raised) =>
        /\ ev_out.record.name = ev_name
        /\ ev_out.record.passed = PassedOfScore(ev_name, ev_out.record.score)

\* a judge score of exactly 0.6 passes
C15_Witness ==
    /\ Returned("llm_faithfulness")
    /\ ev_out.record.score = 600
    /\ ev_out.record.passed = TRUE

\* C16: the reasoning of every record an evaluator returns, whatever the judge
\* answered, is a string that is not empty.
C16_ReasoningNonEmpty ==
    (ev_name \in EvaluatorNames /\ ~ev_out.raised) =>
        NonEmptyText(ev_out.record.reasoning)

----------------------------------------------------------------------------
(* Properties of the summaries *)

Called(f) == f \in ex_done

\* the results of the list whose composite evaluation has passed = true
PassedResults ==
    {i \in 1..Len(ex_results) :
        /\ "evaluations" \in DOMAIN ex_results[i]
        /\ "composite" \in DOMAIN ex_results[i].evaluations
        /\ "passed" \in DOMAIN ex_results[i].evaluations["composite"]
        /\ ex_results[i].evaluations["composite"].passed = TRUE}

\* C17: the summary of export_to_json has total = number of results, passed =
\* number of results whose composite evaluation passed, failed = total - passed
\* (so passed + failed = total, 0 <= passed <= total), and print_summary
\* prints the same three numbers for the same list.
C17_SummaryCounts ==
    /\ Called("export_to_json") =>
        LET s == ex_payload.summary
        IN  /\ s.total = Len(ex_results)
            /\ s.passed = Cardinality(PassedResults)
            /\ s.failed = s.total - s.passed
            /\ s.passed + s.failed = s.total
            /\ 0 <= s.passed /\ s.passed <= s.total
    /\ Called("print_summary") =>
        ex_printed = <<"Processed ", ToString(Len(ex_results)),
                       " tickets | passed: ", ToString(Cardinality(PassedResults)),
                       " | failed: ",
                       ToString(Len(ex_results) - Cardinality(PassedResults))>>
    /\ (Called("export_to_json") /\ Called("print_summary")) =>
        /\ ex_printed[2] = ToString(ex_payload.summary.total)
        /\ ex_printed[4] = ToString(ex_payload.summary.passed)
        /\ ex_printed[6] = ToString(ex_payload.summary.failed)

\* three results, two of them passed, one with a composite entry that did not,
\* summarised by both functions
C17_Witness ==
    /\ Called("export_to_json") /\ Called("print_summary")
    /\ ex_payload.summary.total = 3
    /\ ex_payload.summary.passed = 2
    /\ ex_payload.summary.failed = 1
    /\ \E i \in 1..Len(ex_results) :
            /\ i \notin PassedResults
            /\ "composite" \in DOMAIN Get(ex_results[i], "evaluations", EmptyMap)

\* the results of the list that carry the evaluation `name`
Carriers(name) ==
    {i \in 1..Len(ex_results) :
        "evaluations" \in DOMAIN ex_results[i] /\ name \in DOMAIN ex_results[i].evaluations}

\* the score of `name` of result i as a number: action_steps scores count 0 or 1
NumericScore(name, i) ==
    LET s == ex_results[i].evaluations[name].score
    IN  IF name # "action_steps" THEN s
        ELSE IF s = TRUE THEN 1000 ELSE 0

\* the sum of the scores of `name` over the set I of results
RECURSIVE ScoreSum(_, _)
ScoreSum(name, I) ==
    IF I = {} THEN 0
    ELSE LET i == CHOOSE x \in I : TRUE
         IN  NumericScore(name, i) + ScoreSum(name, I \ {i})

\* m is total / n rounded to the nearest unit (either way on a tie)
IsRoundedMean(m, total, n) ==
    /\ 2 * (m * n - total) <= n
    /\ 2 * (total - m * n) <= n

\* the evaluation each metric is made of
EvaluationOf(metric) ==
    IF metric = "action_steps_presence" THEN "action_steps" ELSE metric

\* C18: each metric of _collect_metrics is the mean, rounded to 3 decimals, of
\* the score over the results that carry the evaluation (the others are left
\* out, not counted as 0), action_steps scores counting 0 or 1; a metric that no
\* result carries is 0.
C18_MetricsAreMeans ==
    Called("_collect_metrics") =>
        \A k \in 1..Len(MetricNames) :
            LET metric == MetricNames[k]
                I == Carriers(EvaluationOf(metric))
            IN  /\ metric \in DOMAIN ex_metrics
                /\ IF I = {} THEN ex_metrics[metric] = 0
                   ELSE IsRoundedMean(ex_metrics[metric],
                                      ScoreSum(EvaluationOf(metric), I), Cardinality(I))

\* routing scores 5 and 2 and a result without a routing evaluation: mean 3.5
C18_Witness ==
    /\ Called("_collect_metrics")
    /\ Len(ex_results) = 3
    /\ Cardinality(Carriers("routing_accuracy")) = 2
    /\ ex_metrics["routing_accuracy"] = 3500

\* C19: the summary of _collect_metrics always names a bottleneck: the metric
\* with the lowest mean among routing_accuracy, keyword_coverage and
\* action_steps_presence, the first of them in that order on a tie; with no
\* data it is routing_accuracy.
C19_BottleneckIsFirstLowest ==
    Called("_collect_metrics") =>
        /\ "bottleneck" \in DOMAIN ex_metrics
        /\ \E b \in 1..3 :
            /\ ex_metrics["bottleneck"]
                    = <<"routing_accuracy", "keyword_coverage", "action_steps_presence">>[b]
            /\ \A o \in 1..3 :
                    ex_metrics[ex_metrics["bottleneck"]]
                        <= ex_metrics[<<"routing_accuracy", "keyword_coverage",
                                        "action_steps_presence">>[o]]
            /\ \A o \in 1..(b - 1) :
                    ex_metrics[<<"routing_accuracy", "keyword_coverage",
                                 "action_steps_presence">>[o]]
                        > ex_metrics[ex_metrics["bottleneck"]]
        /\ ex_results = <<>> => ex_metrics["bottleneck"] = "routing_accuracy"

\* keyword coverage and action steps tie at 0 below the routing mean: the
\* bottleneck is keyword_coverage
C19_Witness ==
    /\ Called("_collect_metrics")
    /\ ex_metrics["routing_accuracy"] > 0
    /\ ex_metrics["keyword_coverage"] = 0
    /\ ex_metrics["action_steps_presence"] = 0
    /\ ex_metrics["bottleneck"] = "keyword_coverage"

\* C20: for results evaluated by the evaluators of the repository, every metric
\* of _collect_metrics lies between 0 and 1.
C20_MetricsInUnitRange ==
    (/\ Called("_collect_metrics")
     /\ \A i \in 1..Len(ex_results) : ex_results[i] \in ProducedResults) =>
        \A k \in 1..Len(MetricNames) :
            0 <= ex_metrics[MetricNames[k]] /\ ex_metrics[MetricNames[k]] <= 1000

----------------------------------------------------------------------------
(* Further properties of the Tracer *)

\* C23: end_trace on a Tracer on which start_trace was never called raises no
\* error and returns a trace that has no start time.
C23_EndTraceWithoutStart ==
    (history # <<>> /\ Last(history).op = "end_trace" /\ LastStart(history) = 0) =>
        /\ ~Last(history).raised
        /\ returned # <<>>
        /\ Last(returned).at = Len(history)
        /\ "start_time" \notin traces[Last(returned).ref].keys

\* C28: end_trace hands out a copy of the step buffer: a record_step or another
\* end_trace made after a trace was returned and before the next start_trace
\* changes neither the steps nor the end_time / latency_ms of that trace.
C28_ReturnedTraceIsACopy ==
    [][\A i \in 1..Len(returned) :
            (/\ Last(history').op \in {"record_step", "end_trace"}
             /\ ~StartedAfterReturn(i, history))
                => /\ TraceValue(returned[i].ref)'.steps = TraceValue(returned[i].ref).steps
                   /\ traces'[returned[i].ref].end_time = traces[returned[i].ref].end_time
                   /\ traces'[returned[i].ref].latency_ms
                            = traces[returned[i].ref].latency_ms]_vars


----------------------------------------------------------------------------
(* Further properties of the evaluators *)

\* the input has the shape process_ticket returns: the generated answer is
\* also output.answer, the text function_to_evaluate hands to HoneyHive
AnswerIsOutput ==
    /\ HasGeneratedAnswer
    /\ "output" \in DOMAIN ev_result
    /\ "answer" \in DOMAIN ev_result.output
    /\ ev_result.output.answer = ev_result.steps.generate.answer

\* C24: on a ticket without expected keywords the core KeywordEvaluator gives
\* score 0.0 and passed False while the HoneyHive keyword_coverage gives 100;
\* with expected keywords both give the matched fraction of the generated
\* answer, the core rounded to 3 decimals and HoneyHive on the 0-100 scale.
C24_KeywordScalesAgree ==
    (ev_name = "keyword_coverage" /\ AnswerIsOutput) =>
        LET hh == keyword_coverage(FunctionToEvaluateOutputs(ev_result),
                                   Get(GROUND_TRUTH, StrOf(ev_ticket.id), EmptyMap))
            n == Len(InputKeywords)
            found == Matches(InputKeywords, LowerText(InputAnswer))
        IN  /\ ~ev_out.raised
            /\ n = 0 => ev_out.record.score = 0 /\ ev_out.record.passed = FALSE /\ hh = 100
            /\ n > 0 => /\ hh = (100 * found) \div n
                        /\ ev_out.record.score = RoundHalfEven(1000 * found, n)


----------------------------------------------------------------------------
(* Further properties of run_pipeline *)

\* the k-th result of the run is that of a ticket routed to its expected
\* category whose generated answer has numbered steps and at least 60% of the
\* expected keywords
GoodTicket(k) ==
    LET r == pl_results[k]
        truth == GROUND_TRUTH[StrOf(Datapoints[k].id)]
        answer == r.steps.generate.answer.chars
    IN  /\ r.output.category = truth.expected_category
        /\ HasNumberedStep(answer)
        /\ FractionFound(truth.expected_keywords, answer) >= 600

\* C26: in run_pipeline the keyword_coverage record of a ticket scores the
\* answer of that ticket's generate step, so a ticket routed to its expected
\* category, answered with numbered steps and at least 60% of its expected
\* keywords, ends with evaluations.composite.passed = True and is counted in
\* the summary's passed.
C26_GoodTicketPasses ==
    \A k \in 1..Len(pl_results) :
        LET r == pl_results[k]
            truth == GROUND_TRUTH[StrOf(Datapoints[k].id)]
        IN  /\ r.evaluations["keyword_coverage"].score
                    = FractionFound(truth.expected_keywords, r.steps.generate.answer.chars)
            /\ GoodTicket(k) =>
                    /\ r.evaluations["composite"].passed = TRUE
                    /\ CountPassed(pl_results)
                            >= Cardinality({j \in 1..Len(pl_results) : GoodTicket(j)})


----------------------------------------------------------------------------
(* Further properties of the summaries *)

\* the first result of the list, {} for an empty list
FirstResult == IF ex_results # <<>> THEN ex_results[1] ELSE EmptyMap

\* C21: export_to_json returns the payload it writes, and reloading the
\* written file gives an equal payload: run_id, dataset and prompt_version are
\* those of the first result (a fresh run_id when the first result has none or
\* the list is empty, dataset "unknown" when absent), results is the input list
\* and summary.total its length.
C21_ExportRoundTrip ==
    Called("export_to_json") =>
        LET loaded == JsonLoad(ex_file)
        IN  /\ loaded = ex_payload
            /\ loaded.run_id = IF Get(FirstResult, "run_id", None) \in {None, ""}
                               THEN "<uuid4>" ELSE FirstResult.run_id
            /\ loaded.dataset = Get(FirstResult, "dataset", "unknown")
            /\ loaded.prompt_version = Get(FirstResult, "prompt_version", None)
            /\ loaded.results = ex_results
            /\ loaded.summary.total = Len(ex_results)

\* test_export_uses_metadata, followed by a result that has no run_id: the file
\* reloads with run_id "run123", dataset "mock" and the two results
C21_Witness ==
    /\ Called("export_to_json")
    /\ Len(ex_results) = 2
    /\ ex_results[1] = [run_id |-> "run123", dataset |-> "mock", prompt_version |-> "v1",
                        output |-> EmptyMap,
                        evaluations |-> [composite |-> [passed |-> TRUE]]]
    /\ "run_id" \notin DOMAIN ex_results[2]
    /\ JsonLoad(ex_file).run_id = "run123"
    /\ JsonLoad(ex_file).dataset = "mock"
    /\ JsonLoad(ex_file).summary.total = 2


----------------------------------------------------------------------------
(* Properties of compare_runs *)

\* the summary of the file at path_a / path_b, {} when the file has none
SummaryA == Get(JsonLoad(cmp_files.a), "summary", EmptyMap)

SummaryB == Get(JsonLoad(cmp_files.b), "summary", EmptyMap)

MetricsA == Get(SummaryA, "metrics", EmptyMap)

MetricsB == Get(SummaryB, "metrics", EmptyMap)

\* passed, failed: those in both summaries, in that order
SharedCounts ==
    SelectSeq(<<"passed", "failed">>,
              LAMBDA key : key \in DOMAIN SummaryA /\ key \in DOMAIN SummaryB)

\* C22: compare_runs leaves both files as they are and prints, after the
\* heading, a line for passed and for failed only when the key is in both
\* summaries, then one line per metric of B with A's value for that key (None
\* when A lacks it) and B's value; a metric that only A has gets no line.
C22_CompareRunsLines ==
    [][(cmp_printed = <<>> /\ cmp_printed' # <<>>) =>
        LET lines == cmp_printed'
            n == Len(SharedCounts)
        IN  /\ cmp_files' = cmp_files
            /\ lines[1] = <<"Comparison (A -> B):">>
            /\ Len(lines) = 1 + n + Cardinality(DOMAIN MetricsB)
            /\ \A i \in 1..n :
                    lines[1 + i] = <<SharedCounts[i], ": ", ToString(SummaryA[SharedCounts[i]]),
                                     " -> ", ToString(SummaryB[SharedCounts[i]])>>
            /\ \A m \in DOMAIN MetricsB :
                    \E i \in (n + 2)..Len(lines) :
                        /\ lines[i][1] = m
                        /\ lines[i][3] = IF m \in DOMAIN MetricsA
                                         THEN MetricText(m, MetricsA[m]) ELSE "None"
                        /\ lines[i][5] = MetricText(m, MetricsB[m])
            /\ \A i \in (n + 2)..Len(lines) : lines[i][1] \in DOMAIN MetricsB]_vars

\* A has passed, failed and a routing_accuracy that B lacks; B has no failed
\* and a bottleneck that A lacks: a passed line and two metric lines, one of
\* them with None, none for routing_accuracy
C22_Witness ==
    /\ cmp_printed # <<>>
    /\ DOMAIN SummaryA = {"passed", "failed", "metrics"}
    /\ DOMAIN SummaryB = {"passed", "metrics"}
    /\ DOMAIN MetricsA = {"routing_accuracy", "keyword_coverage"}
    /\ DOMAIN MetricsB = {"keyword_coverage", "bottleneck"}
    /\ Len(cmp_printed) = 4
    /\ cmp_printed[2][1] = "passed"
    /\ \E i \in 3..4 : cmp_printed[i] = <<"bottleneck", ": ", "None", " -> ", "keyword_coverage">>
    /\ \E i \in 3..4 : cmp_printed[i] = <<"keyword_coverage", ": ", "750", " -> ", "250">>


----------------------------------------------------------------------------
(* Properties of the CustomerSupportAgent *)

AgentCategories == {"upload_errors", "account_access", "data_export", "other"}

\* C25: with the LLM disabled, process_ticket returns a result whose ticket_id
\* is str(ticket["id"]), whose steps map has exactly the keys route, retrieve
\* and generate, whose generate step has an answer with numbered action steps,
\* and whose output.category is one of the four categories.
C25_HeuristicResultShape ==
    \A i \in 1..Len(ag_returned) :
        LET call == ag_returned[i].call
            result == ag_returned[i].result
        IN  ~call.llm =>
                /\ result.ticket_id = StrOf(call.ticket.id)
                /\ DOMAIN result.steps = {"route", "retrieve", "generate"}
                /\ "answer" \in DOMAIN result.steps.generate
                /\ result.steps.generate.answer.type = "str"
                /\ HasNumberedStep(result.steps.generate.answer.chars)
                /\ result.steps.generate.has_action_steps = TRUE
                /\ result.output.category \in AgentCategories

\* the ticket with the int id 7 processed with the LLM disabled: ticket_id "7",
\* routed to account_access by the heuristic
C25_Witness ==
    \E i \in 1..Len(ag_returned) :
        /\ ~ag_returned[i].call.llm
        /\ ag_returned[i].call.ticket.id = [kind |-> "int", s |-> "", n |-> 7]
        /\ ag_returned[i].result.ticket_id = "7"
        /\ ag_returned[i].result.output.category = "account_access"
        /\ ag_returned[i].result.steps.generate.has_action_steps = TRUE

\* C27: use_llm never goes from False to True; an LLM call that raises in
\* route_to_category or generate_response leaves it False and is the last call
\* ever made on the client; every call on the client is made with use_llm
\* True; a routing reply that is not valid JSON gives the heuristic routing for
\* that call and leaves use_llm as it was.
C27_UseLlmIsALatch ==
    [][/\ ag_use_llm' => ag_use_llm
       /\ \A i \in 1..Len(ag_llm_log') :
            /\ ag_llm_log'[i].use_llm
            /\ ag_llm_log'[i].raised => (i = Len(ag_llm_log') /\ ~ag_use_llm')
       /\ (/\ ag_llm_log' # ag_llm_log
           /\ Last(ag_llm_log').step = "route_to_category"
           /\ ~Last(ag_llm_log').raised
           /\ ParseRouting(Last(ag_llm_log').content).kind = "invalid")
            => /\ ag_use_llm' = ag_use_llm
               /\ ag_routing'.category = HeuristicRoute(ag_call.ticket.issue).category
               /\ ag_routing'.raw_response = [mode |-> "fallback_parse_error"]]_vars

\* the routing reply of the first ticket is not JSON and its generation call
\* is made and raises; the second ticket is processed without the client
C27_Witness ==
    /\ Len(ag_llm_log) = 2
    /\ ag_llm_log[1].step = "route_to_category"
    /\ ag_llm_log[1].content = "I think this is about exports."
    /\ ag_llm_log[2].step = "generate_response"
    /\ ag_llm_log[2].raised
    /\ ag_llm_log[2].call = 1
    /\ Len(ag_returned) = 2
    /\ ~ag_use_llm

\* C29: the trace of every result returned by one agent has exactly the steps
\* route_to_category, retrieve_docs, generate_response, in that order, with the
\* inputs, outputs and attributes of that call, and the ticket_id, run_id and
\* datapoint_id of that call; it is as it was returned, whatever was processed
\* after it.
C29_TraceOfEachResult ==
    \A i \in 1..Len(ag_returned) :
        LET call == ag_returned[i].call
            result == ag_returned[i].result
            trace == TraceValue(result.trace)
        IN  /\ Len(trace.steps) = 3
            /\ trace.steps[1].name = "route_to_category"
            /\ trace.steps[2].name = "retrieve_docs"
            /\ trace.steps[3].name = "generate_response"
            /\ trace.steps[1].input = [issue |-> call.ticket.issue]
            /\ trace.steps[1].output = result.steps.route
            /\ trace.steps[2].input = [category |-> result.steps.route.category]
            /\ trace.steps[2].output = result.steps.retrieve
            /\ trace.steps[3].input = [issue |-> call.ticket.issue,
                                       docs |-> result.steps.retrieve.docs]
            /\ trace.steps[3].output = result.steps.generate
            /\ \A k \in 1..3 : trace.steps[k].attributes = StepAttributes(call)
            /\ trace.d.ticket_id = StrOf(call.ticket.id)
            /\ trace.d.run_id = call.run_id
            /\ trace.d.datapoint_id = DatapointIdOf(call)
            /\ trace = ag_returned[i].trace

\* two different tickets were processed one after the other, the first
\* without a datapoint_id
C29_Witness ==
    /\ Len(ag_returned) = 2
    /\ ag_returned[1].call.ticket # ag_returned[2].call.ticket
    /\ ag_returned[1].call.datapoint_id = None
    /\ ag_returned[1].result.trace # ag_returned[2].result.trace
    /\ TraceValue(ag_returned[1].result.trace).d.datapoint_id
            = StrOf(ag_returned[1].call.ticket.id)


----------------------------------------------------------------------------
(* Properties of repeated calls *)

====
